---- MODULE Spec2Model ----
(***************************************************************************)
(* Knowledge Graph Store (src/index.ts, class KnowledgeGraphManager).      *)
(*                                                                         *)
(* The backing file is a sequence of lines.  Every operation loads the     *)
(* whole file, mutates the loaded graph in memory and (for mutations)      *)
(* writes the whole file back.                                             *)
(***************************************************************************)
EXTENDS Integers, Sequences, FiniteSets, TLC

VARIABLES
    file,    \* the backing file: [exists, lines]
    clock,   \* Date.now(), in abstract milliseconds
    phase,   \* "starting" (main() before cleanup) or "serving"
    last,    \* the last completed call: [op, args, ret, pre, saved]
    procs    \* calls in flight whose awaits may interleave (asynchronous view)

vars == <<file, clock, phase, last, procs>>

----------------------------------------------------------------------------
(* Bounds of the model *)

MaxEntities == 2     \* stored entities a create may grow the graph to
MaxRelations == 2    \* stored relations a create may grow the graph to
MaxObservations == 2 \* stored observations an add may grow the graph to
MaxVersion == 2      \* a record is updated only while its version is below
MaxClock == 1        \* the clock ticks up to this value
MaxRand == 1         \* Math.random() suffixes 0..MaxRand of observation ids
MaxInFlight == 2     \* calls whose awaits may interleave

----------------------------------------------------------------------------
(* Strings *)

Names == {"A", "B"}

\* String.prototype.trim on the strings of the model
Trim(s) ==
    CASE s = " B " -> "B"
      [] s = "  " -> ""
      [] OTHER -> s

\* an optional field that the caller left out
Undefined == "<undefined>"

\* JavaScript truthiness of a string
Truthy(s) == s # ""

----------------------------------------------------------------------------
(* Sequence helpers (Array.prototype methods) *)

Range(s) == {s[i] : i \in 1..Len(s)}

\* arr.some(test)
Some(s, Test(_)) == \E i \in 1..Len(s) : Test(s[i])

\* arr.findIndex(test), 1-based; 0 stands for -1
FindIndex(s, Test(_)) ==
    IF \E i \in 1..Len(s) : Test(s[i])
    THEN CHOOSE i \in 1..Len(s) : Test(s[i]) /\ \A j \in 1..(i - 1) : ~Test(s[j])
    ELSE 0

\* arr.map(f)
Map(s, F(_)) == [i \in 1..Len(s) |-> F(s[i])]

\* all sequences over S of length at most n
SeqsUpTo(S, n) == UNION {[1..k -> S] : k \in 0..n}

----------------------------------------------------------------------------
(* Records *)

NoAliases == <<Undefined>>   \* the aliases field is absent

MkEntity(name, entityType, aliases, createdAt, version) ==
    [type |-> "entity", name |-> name, entityType |-> entityType,
     aliases |-> aliases, createdAt |-> createdAt, version |-> version]

MkRelation(from, to, relationType, createdAt, version) ==
    [type |-> "relation", from |-> from, to |-> to,
     relationType |-> relationType, createdAt |-> createdAt, version |-> version]

MkObservation(id, entityName, content, timestamp, status, createdAt, version) ==
    [type |-> "observation", id |-> id, entityName |-> entityName,
     content |-> content, timestamp |-> timestamp, status |-> status,
     createdAt |-> createdAt, version |-> version]

EmptyGraph == [entities |-> <<>>, relations |-> <<>>, observations |-> <<>>]

----------------------------------------------------------------------------
(* Persistence *)

\* the per-line validation of loadGraph
ValidEntity(item) ==
    item.type = "entity" /\ Truthy(item.name) /\ Truthy(item.entityType)

ValidRelation(item) ==
    item.type = "relation" /\ Truthy(item.from) /\ Truthy(item.to)
        /\ Truthy(item.relationType)

ValidObservation(item) ==
    item.type = "observation" /\ Truthy(item.entityName)

\* a property that the JSON text of a line does not carry
Absent == "<absent>"

\* JSON.stringify writing a property whose value is undefined as null
JSONStringify_UndefinedAsNull(item) ==
    [json |-> IF item.type = "observation"
              THEN [item EXCEPT
                      !.timestamp = IF @ = Undefined THEN "null" ELSE @,
                      !.status = IF @ = Undefined THEN "null" ELSE @]
              ELSE item]

\* JSON.stringify({ type, ...item }): one line of JSON text; a property whose
\* value is undefined is left out of the text
JSONStringify(item) ==
    [json |-> IF item.type = "observation"
              THEN [item EXCEPT
                      !.timestamp = IF @ = Undefined THEN Absent ELSE @,
                      !.status = IF @ = Undefined THEN Absent ELSE @]
              ELSE item]

\* JSON.parse(line) returns: the line is JSON text of an object
Parses(line) == "json" \in DOMAIN line

\* JSON.parse(line): reading a property the text does not carry gives
\* undefined
JSONParse(line) ==
    LET item == line.json
    IN IF item.type = "observation"
       THEN [item EXCEPT
               !.timestamp = IF @ = Absent THEN Undefined ELSE @,
               !.status = IF @ = Absent THEN Undefined ELSE @]
       ELSE item

\* fs.readFile rejects with an error other than ENOENT (EACCES, EISDIR, EIO):
\* loadGraph logs it and throws it again
loadGraphThrows(f) == f.exists /\ f.readError # "none"

\* a line loadGraph puts into one of the collections
Loadable(line) ==
    Parses(line)
        /\ (\/ ValidEntity(JSONParse(line))
            \/ ValidRelation(JSONParse(line))
            \/ ValidObservation(JSONParse(line)))

\* a loadGraph that stops at the first line it cannot use
loadGraph_StopAtBadLine(f) ==
    IF ~f.exists THEN EmptyGraph
    ELSE LET n == IF \E i \in 1..Len(f.lines) : ~Loadable(f.lines[i])
                  THEN (CHOOSE i \in 1..Len(f.lines) :
                            /\ ~Loadable(f.lines[i])
                            /\ \A j \in 1..(i - 1) : Loadable(f.lines[j])) - 1
                  ELSE Len(f.lines)
             items == [i \in 1..n |-> JSONParse(f.lines[i])]
         IN [entities |-> SelectSeq(items, ValidEntity),
             relations |-> SelectSeq(items, ValidRelation),
             observations |-> SelectSeq(items, ValidObservation)]

\* loadGraph when it returns: a missing file is the empty graph; each line
\* that parses goes to the collection of its type, the other lines are skipped
loadGraph(f) ==
    IF ~f.exists THEN EmptyGraph
    ELSE LET items == [i \in 1..Len(SelectSeq(f.lines, Parses)) |->
                          JSONParse(SelectSeq(f.lines, Parses)[i])]
         IN [entities |-> SelectSeq(items, ValidEntity),
             relations |-> SelectSeq(items, ValidRelation),
             observations |-> SelectSeq(items, ValidObservation)]

\* saveGraph: the valid entities, then relations, then observations, one
\* line of JSON text each
saveGraph(graph) ==
    LET valid == SelectSeq(graph.entities, ValidEntity)
                   \o SelectSeq(graph.relations, ValidRelation)
                   \o SelectSeq(graph.observations, ValidObservation)
    IN [exists |-> TRUE,
        readError |-> "none",
        lines |-> [i \in 1..Len(valid) |-> JSONStringify(valid[i])]]

----------------------------------------------------------------------------
(* createEntities *)

createEntities(graph, entities, now) ==
    LET Fresh(e) == Truthy(e.name) /\ Truthy(e.entityType)
                      /\ ~Some(graph.entities, LAMBDA existing : existing.name = e.name)
        New(e) == MkEntity(e.name, e.entityType,
                           IF e.aliases = NoAliases THEN <<>> ELSE e.aliases,
                           now, 1)
        newEntities == Map(SelectSeq(entities, Fresh), New)
    IN [graph |-> [graph EXCEPT !.entities = @ \o newEntities],
        ret |-> newEntities,
        save |-> TRUE,
        threw |-> FALSE]

----------------------------------------------------------------------------
(* createRelations, deleteRelations, updateRelations *)

SameTriple(r, s) ==
    r.from = s.from /\ r.to = s.to /\ r.relationType = s.relationType

createRelations(graph, relations, now) ==
    LET Fresh(r) == ~Some(graph.relations, LAMBDA existing : SameTriple(existing, r))
        New(r) == MkRelation(r.from, r.to, r.relationType, now, 1)
        newRelations == Map(SelectSeq(relations, Fresh), New)
    IN [graph |-> [graph EXCEPT !.relations = @ \o newRelations],
        ret |-> newRelations,
        save |-> TRUE,
        threw |-> FALSE]

\* a deleteRelations that compares the two ends only
deleteRelations_EndpointsOnly(graph, relations) ==
    LET Keep(r) == ~Some(relations,
                         LAMBDA del : r.from = del.from /\ r.to = del.to)
    IN [graph |-> [graph EXCEPT !.relations = SelectSeq(@, Keep)],
        ret |-> <<>>,
        save |-> TRUE,
        threw |-> FALSE]

deleteRelations(graph, relations) ==
    LET Keep(r) == ~Some(relations, LAMBDA del : SameTriple(r, del))
    IN [graph |-> [graph EXCEPT !.relations = SelectSeq(@, Keep)],
        ret |-> <<>>,
        save |-> TRUE,
        threw |-> FALSE]

\* the forEach of updateRelations: each updated relation replaces the first
\* stored relation with its triple
RECURSIVE ReplaceRelations(_, _)
ReplaceRelations(stored, updated) ==
    IF updated = <<>> THEN stored
    ELSE LET u == Head(updated)
             index == FindIndex(stored, LAMBDA r : SameTriple(r, u))
         IN ReplaceRelations(
                IF index # 0 THEN [stored EXCEPT ![index] = u] ELSE stored,
                Tail(updated))

\* an updateRelations that skips the inputs it does not find and saves the rest
updateRelations_SkipMissing(graph, relations, now) ==
    LET Found(u) == Some(graph.relations, LAMBDA r : SameTriple(r, u))
        Existing(u) ==
            graph.relations[FindIndex(graph.relations, LAMBDA r : SameTriple(r, u))]
        Updated(u) ==
            [Existing(u) EXCEPT !.version = @ + 1, !.createdAt = now]
        updatedRelations == Map(SelectSeq(relations, Found), Updated)
    IN [graph |-> [graph EXCEPT
                      !.relations = ReplaceRelations(@, updatedRelations)],
        ret |-> updatedRelations,
        save |-> TRUE,
        threw |-> \E i \in 1..Len(relations) : ~Found(relations[i])]

updateRelations(graph, relations, now) ==
    LET Found(u) == Some(graph.relations, LAMBDA r : SameTriple(r, u))
        Existing(u) ==
            graph.relations[FindIndex(graph.relations, LAMBDA r : SameTriple(r, u))]
        Updated(u) ==
            [Existing(u) EXCEPT !.version = @ + 1, !.createdAt = now]
    IN IF \E i \in 1..Len(relations) : ~Found(relations[i])
       THEN [graph |-> graph, ret |-> <<>>, save |-> FALSE, threw |-> TRUE]
       ELSE LET updatedRelations == Map(relations, Updated)
            IN [graph |-> [graph EXCEPT
                              !.relations = ReplaceRelations(@, updatedRelations)],
                ret |-> updatedRelations,
                save |-> TRUE,
                threw |-> FALSE]

----------------------------------------------------------------------------
(* deleteEntities *)

Includes(s, x) == \E i \in 1..Len(s) : s[i] = x

\* a deleteEntities that forgets the relations pointing to a deleted entity
deleteEntities_FromOnly(graph, entityNames) ==
    [graph |->
        [entities |-> SelectSeq(graph.entities,
                                LAMBDA e : ~Includes(entityNames, e.name)),
         relations |-> SelectSeq(graph.relations,
                                 LAMBDA r : ~Includes(entityNames, r.from)),
         observations |-> SelectSeq(graph.observations,
                                    LAMBDA o : ~Includes(entityNames, o.entityName))],
     ret |-> <<>>,
     save |-> TRUE,
     threw |-> FALSE]

deleteEntities(graph, entityNames) ==
    [graph |->
        [entities |-> SelectSeq(graph.entities,
                                LAMBDA e : ~Includes(entityNames, e.name)),
         relations |-> SelectSeq(graph.relations,
                                 LAMBDA r : ~Includes(entityNames, r.from)
                                              /\ ~Includes(entityNames, r.to)),
         observations |-> SelectSeq(graph.observations,
                                    LAMBDA o : ~Includes(entityNames, o.entityName))],
     ret |-> <<>>,
     save |-> TRUE,
     threw |-> FALSE]

----------------------------------------------------------------------------
(* updateEntities *)

\* a cascade that bumps the version once for each rewritten endpoint
RenameRelation_BumpsPerEndpoint(relation, currentName, finalName) ==
    LET fromHit == relation.from = currentName
        toHit == relation.to = currentName
    IN [relation EXCEPT
            !.from = IF fromHit THEN finalName ELSE @,
            !.to = IF toHit THEN finalName ELSE @,
            !.version = @ + (IF fromHit THEN 1 ELSE 0) + (IF toHit THEN 1 ELSE 0)]

\* the cascade of a rename over one relation: both endpoints are rewritten,
\* the version is bumped once
RenameRelation(relation, currentName, finalName) ==
    LET fromHit == relation.from = currentName
        toHit == relation.to = currentName
    IN [relation EXCEPT
            !.from = IF fromHit THEN finalName ELSE @,
            !.to = IF toHit THEN finalName ELSE @,
            !.version = IF fromHit \/ toHit THEN @ + 1 ELSE @]

RenameObservation(observation, currentName, finalName) ==
    IF observation.entityName = currentName
    THEN [observation EXCEPT !.entityName = finalName, !.version = @ + 1]
    ELSE observation

\* an updateEntities that, on a name collision, skips the rename only and
\* still applies the entry's entityType and aliases
updateEntity_PartialOnCollision(st, updateData, now) ==
    LET graph == st.graph
        currentName == updateData.name
        newName == IF updateData.newName = Undefined THEN Undefined
                   ELSE Trim(updateData.newName)
        existingEntityIndex ==
            FindIndex(graph.entities, LAMBDA e : e.name = currentName)
        wantsRename ==
            newName # Undefined /\ Truthy(newName) /\ newName # currentName
        collisionIndex == FindIndex(graph.entities, LAMBDA e : e.name = newName)
    IN IF existingEntityIndex = 0
       THEN [st EXCEPT !.warnings = Append(@, <<"not found", currentName>>)]
       ELSE
         LET existingEntity == graph.entities[existingEntityIndex]
             collides == wantsRename /\ collisionIndex # 0
                            /\ collisionIndex # existingEntityIndex
             finalName == IF wantsRename /\ ~collides THEN newName
                          ELSE currentName
             newlyUpdatedEntity ==
                 [existingEntity EXCEPT
                     !.name = finalName,
                     !.entityType = IF updateData.entityType # Undefined
                                    THEN updateData.entityType ELSE @,
                     !.aliases = IF updateData.aliases # NoAliases
                                 THEN updateData.aliases ELSE @,
                     !.version = @ + 1,
                     !.createdAt = now]
             renamed == finalName # currentName
         IN [graph |->
                [entities |-> [graph.entities EXCEPT
                                  ![existingEntityIndex] = newlyUpdatedEntity],
                 relations |->
                    IF renamed
                    THEN Map(graph.relations,
                             LAMBDA r : RenameRelation(r, currentName, finalName))
                    ELSE graph.relations,
                 observations |->
                    IF renamed
                    THEN Map(graph.observations,
                             LAMBDA o : RenameObservation(o, currentName, finalName))
                    ELSE graph.observations],
             updated |-> Append(st.updated, newlyUpdatedEntity),
             warnings |-> IF collides
                          THEN Append(st.warnings,
                                      <<"name exists", currentName, newName>>)
                          ELSE st.warnings,
             modified |-> TRUE]

\* one entry of the batch (the body of the forEach); st is
\* [graph, updated, warnings, modified]
updateEntity(st, updateData, now) ==
    LET graph == st.graph
        currentName == updateData.name
        newName == IF updateData.newName = Undefined THEN Undefined
                   ELSE Trim(updateData.newName)
        existingEntityIndex ==
            FindIndex(graph.entities, LAMBDA e : e.name = currentName)
        wantsRename ==
            newName # Undefined /\ Truthy(newName) /\ newName # currentName
        collisionIndex == FindIndex(graph.entities, LAMBDA e : e.name = newName)
    IN IF existingEntityIndex = 0
       THEN [st EXCEPT !.warnings = Append(@, <<"not found", currentName>>)]
       ELSE IF wantsRename /\ collisionIndex # 0
                 /\ collisionIndex # existingEntityIndex
       THEN [st EXCEPT !.warnings = Append(@, <<"name exists", currentName, newName>>)]
       ELSE
         LET existingEntity == graph.entities[existingEntityIndex]
             finalName == IF wantsRename THEN newName ELSE currentName
             newlyUpdatedEntity ==
                 [existingEntity EXCEPT
                     !.name = finalName,
                     !.entityType = IF updateData.entityType # Undefined
                                    THEN updateData.entityType ELSE @,
                     !.aliases = IF updateData.aliases # NoAliases
                                 THEN updateData.aliases ELSE @,
                     !.version = @ + 1,
                     !.createdAt = now]
             renamed == finalName # currentName
         IN [graph |->
                [entities |-> [graph.entities EXCEPT
                                  ![existingEntityIndex] = newlyUpdatedEntity],
                 relations |->
                    IF renamed
                    THEN Map(graph.relations,
                             LAMBDA r : RenameRelation(r, currentName, finalName))
                    ELSE graph.relations,
                 observations |->
                    IF renamed
                    THEN Map(graph.observations,
                             LAMBDA o : RenameObservation(o, currentName, finalName))
                    ELSE graph.observations],
             updated |-> Append(st.updated, newlyUpdatedEntity),
             warnings |-> st.warnings,
             modified |-> TRUE]

\* a forEach that gives up at the first entry whose entity is not found
RECURSIVE updateEntitiesLoop_StopAtMissing(_, _, _)
updateEntitiesLoop_StopAtMissing(st, entitiesToUpdate, now) ==
    IF entitiesToUpdate = <<>> THEN st
    ELSE IF ~Some(st.graph.entities,
                  LAMBDA e : e.name = Head(entitiesToUpdate).name)
    THEN updateEntity(st, Head(entitiesToUpdate), now)
    ELSE updateEntitiesLoop_StopAtMissing(
             updateEntity(st, Head(entitiesToUpdate), now),
             Tail(entitiesToUpdate), now)

RECURSIVE updateEntitiesLoop(_, _, _)
updateEntitiesLoop(st, entitiesToUpdate, now) ==
    IF entitiesToUpdate = <<>> THEN st
    ELSE updateEntitiesLoop(updateEntity(st, Head(entitiesToUpdate), now),
                            Tail(entitiesToUpdate), now)

updateEntities(graph, entitiesToUpdate, now) ==
    LET st == updateEntitiesLoop(
                  [graph |-> graph, updated |-> <<>>, warnings |-> <<>>,
                   modified |-> FALSE],
                  entitiesToUpdate, now)
    IN [graph |-> st.graph,
        ret |-> [updatedEntities |-> st.updated, warnings |-> st.warnings],
        save |-> st.modified,
        threw |-> FALSE]

----------------------------------------------------------------------------
(* Observation content.  A content string is a sequence of tokens separated *)
(* by blanks: a bracketed token "[body]" or a word of free text.            *)

Br(body) == [k |-> "br", body |-> body]
Word(w) == [k |-> "txt", body |-> w]

TS2024 == "2024-01-01T00:00:00Z"
TS2025 == "2025-01-01T00:00:00Z"
TSEpoch == "1970-01-01T00:00:00Z"

\* Date.parse: abstract milliseconds; NaN for what is no date
NaN == -1
DateParse(str) ==
    CASE str = TSEpoch -> 0
      [] str = TS2024 -> 1
      [] str = TS2025 -> 2
      [] OTHER -> NaN

\* JavaScript truthiness of a number
TruthyNum(n) == n # 0 /\ n # NaN

\* the group ([^\]]+) of "\[S:([^\]]+)\]", trimmed and upper-cased; Undefined
\* when the bracket does not start with "S:"
StatusStr(body) ==
    CASE body = "S:Active" -> "ACTIVE"
      [] body = "S:Resolved" -> "RESOLVED"
      [] body = "S:resolved" -> "RESOLVED"
      [] body = "S:Background" -> "BACKGROUND"
      [] body = "S:Archived" -> "ARCHIVED"
      [] body = "S:Done" -> "DONE"
      [] OTHER -> Undefined

\* a parser for which a leading bracket that is no date makes the whole
\* content plain text
parseObservationContent_StatusNeedsDate(content) ==
    IF content # <<>> /\ Head(content).k = "br"
          /\ TruthyNum(DateParse(Head(content).body))
    THEN LET timestampStr == Head(content).body
             hasStatus == Len(content) >= 2 /\ content[2].k = "br"
                            /\ StatusStr(content[2].body) # Undefined
             statusStr == IF hasStatus THEN StatusStr(content[2].body) ELSE Undefined
             text == IF hasStatus THEN Tail(Tail(content)) ELSE Tail(content)
             status == CASE statusStr = "ACTIVE" -> "Active"
                         [] statusStr = "RESOLVED" -> "Resolved"
                         [] statusStr = "BACKGROUND" -> "Background"
                         [] statusStr = "ARCHIVED" -> "Archived"
                         [] OTHER -> "null"
         IN [timestamp |-> timestampStr, status |-> status, text |-> text]
    ELSE [timestamp |-> Undefined, status |-> Undefined, text |-> content]

\* parseObservationContent: /^\[([^\]]+)\](?:\s*\[S:([^\]]+)\])?\s*(.*)/
parseObservationContent(content) ==
    IF content # <<>> /\ Head(content).k = "br"
    THEN LET timestampStr == Head(content).body
             hasStatus == Len(content) >= 2 /\ content[2].k = "br"
                            /\ StatusStr(content[2].body) # Undefined
             statusStr == IF hasStatus THEN StatusStr(content[2].body) ELSE Undefined
             text == IF hasStatus THEN Tail(Tail(content)) ELSE Tail(content)
             status == CASE statusStr = "ACTIVE" -> "Active"
                         [] statusStr = "RESOLVED" -> "Resolved"
                         [] statusStr = "BACKGROUND" -> "Background"
                         [] statusStr = "ARCHIVED" -> "Archived"
                         [] OTHER -> "null"
             timestamp == IF TruthyNum(DateParse(timestampStr))
                          THEN timestampStr ELSE Undefined
         IN [timestamp |-> timestamp, status |-> status, text |-> text]
    ELSE [timestamp |-> Undefined, status |-> Undefined, text |-> content]

\* "parsed.status &&": a status that is neither null nor undefined
HasStatus(status) == status # "null" /\ status # Undefined

\* generateObservationId: obs_<Date.now()>_<random suffix>
generateObservationId(now, rand) == [t |-> now, r |-> rand]

----------------------------------------------------------------------------
(* addObservations *)

\* an addObservation whose status transition appends a new observation
\* instead of updating the matching one
addObservation_TransitionAppends(st, entityName, content, now) ==
    LET parsed == parseObservationContent(content)
        alreadyExists ==
            Some(st.graph.observations,
                 LAMBDA obs : obs.entityName = entityName /\ obs.content = content)
        newObservation ==
            MkObservation(generateObservationId(now, Head(st.rands)),
                          entityName, content, parsed.timestamp,
                          parsed.status, now, 1)
    IN IF alreadyExists THEN st
       ELSE [graph |-> [st.graph EXCEPT !.observations = Append(@, newObservation)],
             addedIds |-> Append(st.addedIds, newObservation.id),
             rands |-> Tail(st.rands)]

\* an addObservation whose duplicate check looks at the content only when the
\* stored observation has the same id prefix, that is: never finds a duplicate
addObservation_NoDuplicateCheck(st, entityName, content, now) ==
    LET graph == st.graph
        parsed == parseObservationContent(content)
        Match(obs) ==
            /\ obs.entityName = entityName
            /\ obs.status = "Active"
            /\ parseObservationContent(obs.content).text = parsed.text
        i == IF HasStatus(parsed.status) /\ parsed.status # "Active"
             THEN FindIndex(graph.observations, Match)
             ELSE 0
    IN IF i # 0
       THEN LET obs == graph.observations[i]
            IN [st EXCEPT
                   !.graph.observations[i] =
                       [obs EXCEPT
                           !.content = content,
                           !.status = parsed.status,
                           !.timestamp = IF parsed.timestamp # Undefined
                                         THEN parsed.timestamp ELSE @,
                           !.version = @ + 1],
                   !.addedIds = Append(@, obs.id)]
       ELSE LET newObservation ==
                    MkObservation(generateObservationId(now, Head(st.rands)),
                                  entityName, content, parsed.timestamp,
                                  parsed.status, now, 1)
            IN [graph |-> [graph EXCEPT !.observations = Append(@, newObservation)],
                addedIds |-> Append(st.addedIds, newObservation.id),
                rands |-> Tail(st.rands)]

\* an addObservation whose transition takes the first Active observation of
\* the text, whatever its entity
addObservation_AnyEntity(st, entityName, content, now) ==
    LET graph == st.graph
        parsed == parseObservationContent(content)
        Match(obs) ==
            /\ obs.status = "Active"
            /\ parseObservationContent(obs.content).text = parsed.text
        i == IF HasStatus(parsed.status) /\ parsed.status # "Active"
             THEN FindIndex(graph.observations, Match)
             ELSE 0
        alreadyExists ==
            Some(graph.observations,
                 LAMBDA obs : obs.entityName = entityName /\ obs.content = content)
    IN IF i # 0
       THEN LET obs == graph.observations[i]
            IN [st EXCEPT
                   !.graph.observations[i] =
                       [obs EXCEPT
                           !.content = content,
                           !.status = parsed.status,
                           !.timestamp = IF parsed.timestamp # Undefined
                                         THEN parsed.timestamp ELSE @,
                           !.version = @ + 1],
                   !.addedIds = Append(@, obs.id)]
       ELSE IF alreadyExists THEN st
       ELSE LET newObservation ==
                    MkObservation(generateObservationId(now, Head(st.rands)),
                                  entityName, content, parsed.timestamp,
                                  parsed.status, now, 1)
            IN [graph |-> [graph EXCEPT !.observations = Append(@, newObservation)],
                addedIds |-> Append(st.addedIds, newObservation.id),
                rands |-> Tail(st.rands)]

\* an addObservation whose transition rewrites an observation of any status
addObservation_TransitionsAnyStatus(st, entityName, content, now) ==
    LET graph == st.graph
        parsed == parseObservationContent(content)
        Match(obs) ==
            /\ obs.entityName = entityName
            /\ HasStatus(obs.status)
            /\ parseObservationContent(obs.content).text = parsed.text
        i == IF HasStatus(parsed.status) /\ parsed.status # "Active"
             THEN FindIndex(graph.observations, Match)
             ELSE 0
        alreadyExists ==
            Some(graph.observations,
                 LAMBDA obs : obs.entityName = entityName /\ obs.content = content)
    IN IF i # 0
       THEN LET obs == graph.observations[i]
            IN [st EXCEPT
                   !.graph.observations[i] =
                       [obs EXCEPT
                           !.content = content,
                           !.status = parsed.status,
                           !.timestamp = IF parsed.timestamp # Undefined
                                         THEN parsed.timestamp ELSE @,
                           !.version = @ + 1],
                   !.addedIds = Append(@, obs.id)]
       ELSE IF alreadyExists THEN st
       ELSE LET newObservation ==
                    MkObservation(generateObservationId(now, Head(st.rands)),
                                  entityName, content, parsed.timestamp,
                                  parsed.status, now, 1)
            IN [graph |-> [graph EXCEPT !.observations = Append(@, newObservation)],
                addedIds |-> Append(st.addedIds, newObservation.id),
                rands |-> Tail(st.rands)]

\* one content string of a group (the body of the inner for loop); st is
\* [graph, addedIds, rands]: rands are the random suffixes not yet drawn
addObservation(st, entityName, content, now) ==
    LET graph == st.graph
        parsed == parseObservationContent(content)
        Match(obs) ==
            /\ obs.entityName = entityName
            /\ obs.status = "Active"
            /\ parseObservationContent(obs.content).text = parsed.text
        i == IF HasStatus(parsed.status) /\ parsed.status # "Active"
             THEN FindIndex(graph.observations, Match)
             ELSE 0
        alreadyExists ==
            Some(graph.observations,
                 LAMBDA obs : obs.entityName = entityName /\ obs.content = content)
    IN IF i # 0
       THEN LET obs == graph.observations[i]
            IN [st EXCEPT
                   !.graph.observations[i] =
                       [obs EXCEPT
                           !.content = content,
                           !.status = parsed.status,
                           !.timestamp = IF parsed.timestamp # Undefined
                                         THEN parsed.timestamp ELSE @,
                           !.version = @ + 1],
                   !.addedIds = Append(@, obs.id)]
       ELSE IF alreadyExists THEN st
       ELSE LET newObservation ==
                    MkObservation(generateObservationId(now, Head(st.rands)),
                                  entityName, content, parsed.timestamp,
                                  parsed.status, now, 1)
            IN [graph |-> [graph EXCEPT !.observations = Append(@, newObservation)],
                addedIds |-> Append(st.addedIds, newObservation.id),
                rands |-> Tail(st.rands)]

RECURSIVE addContents(_, _, _, _)
addContents(st, entityName, contents, now) ==
    IF contents = <<>> THEN st
    ELSE addContents(addObservation(st, entityName, Head(contents), now),
                     entityName, Tail(contents), now)

\* an outer loop that stops at the first group whose entity does not exist
RECURSIVE addGroups_StopAtMissing(_, _, _)
addGroups_StopAtMissing(acc, observationsInput, now) ==
    IF observationsInput = <<>> THEN acc
    ELSE LET input == Head(observationsInput)
             exists == Some(acc.graph.entities,
                            LAMBDA e : e.name = input.entityName)
             st == addContents([graph |-> acc.graph, addedIds |-> <<>>,
                                rands |-> acc.rands],
                               input.entityName, input.contents, now)
         IN IF ~exists
            THEN [acc EXCEPT !.results = Append(@, <<>>)]
            ELSE addGroups_StopAtMissing(
                     [graph |-> st.graph,
                      results |-> Append(acc.results, st.addedIds),
                      rands |-> st.rands],
                     Tail(observationsInput), now)

\* the outer loop over the input groups; acc is [graph, results, rands]
RECURSIVE addGroups(_, _, _)
addGroups(acc, observationsInput, now) ==
    IF observationsInput = <<>> THEN acc
    ELSE LET input == Head(observationsInput)
             exists == Some(acc.graph.entities,
                            LAMBDA e : e.name = input.entityName)
             st == addContents([graph |-> acc.graph, addedIds |-> <<>>,
                                rands |-> acc.rands],
                               input.entityName, input.contents, now)
         IN addGroups(
                IF ~exists
                THEN [acc EXCEPT !.results = Append(@, <<>>)]
                ELSE [graph |-> st.graph,
                      results |-> Append(acc.results, st.addedIds),
                      rands |-> st.rands],
                Tail(observationsInput), now)

addObservations(graph, observationsInput, now, rands) ==
    LET acc == addGroups([graph |-> graph, results |-> <<>>, rands |-> rands],
                         observationsInput, now)
    IN [graph |-> acc.graph,
        ret |-> acc.results,
        save |-> Some(acc.results, LAMBDA ids : Len(ids) > 0),
        threw |-> FALSE]

----------------------------------------------------------------------------
(* deleteObservations *)

RECURSIVE deleteObservationsLoop(_, _)
deleteObservationsLoop(st, deletions) ==
    IF deletions = <<>> THEN st
    ELSE LET d == Head(deletions)
             kept == SelectSeq(st.observations,
                        LAMBDA obs : ~(obs.entityName = d.entityName
                                        /\ Includes(d.observations, obs.content)))
         IN deleteObservationsLoop(
                [observations |-> kept,
                 changed |-> st.changed \/ Len(kept) < Len(st.observations)],
                Tail(deletions))

\* a deleteObservations that saves whether or not it removed anything
deleteObservations_AlwaysSave(graph, deletions) ==
    LET st == deleteObservationsLoop(
                  [observations |-> graph.observations, changed |-> FALSE],
                  deletions)
    IN [graph |-> [graph EXCEPT !.observations = st.observations],
        ret |-> <<>>,
        save |-> TRUE,
        threw |-> FALSE]

deleteObservations(graph, deletions) ==
    LET st == deleteObservationsLoop(
                  [observations |-> graph.observations, changed |-> FALSE],
                  deletions)
    IN [graph |-> [graph EXCEPT !.observations = st.observations],
        ret |-> <<>>,
        save |-> st.changed,
        threw |-> FALSE]

----------------------------------------------------------------------------
(* performStartupCleanup *)

\* a cleanup that saves whether or not it removed anything
performStartupCleanup_AlwaysSave(graph) ==
    [graph |-> [graph EXCEPT
                   !.observations =
                       SelectSeq(@, LAMBDA obs : obs.status # "Archived")],
     ret |-> <<>>,
     save |-> TRUE,
     threw |-> FALSE]

performStartupCleanup(graph) ==
    LET kept == SelectSeq(graph.observations, LAMBDA obs : obs.status # "Archived")
        removedCount == Len(graph.observations) - Len(kept)
    IN [graph |-> [graph EXCEPT !.observations = kept],
        ret |-> <<>>,
        save |-> removedCount > 0,
        threw |-> FALSE]

----------------------------------------------------------------------------
(* Characters of the strings of the model, for substring search *)

\* the characters of a string
Chars(s) ==
    CASE s = "A" -> <<"A">>
      [] s = "B" -> <<"B">>
      [] s = "Al" -> <<"A", "l">>
      [] s = "person" -> <<"p", "e", "r", "s", "o", "n">>
      [] s = "knows" -> <<"k", "n", "o", "w", "s">>
      [] s = "tea" -> <<"t", "e", "a">>
      [] s = "milk" -> <<"m", "i", "l", "k">>
      [] s = "a" -> <<"a">>
      [] s = "al" -> <<"a", "l">>
      [] s = "TEA" -> <<"T", "E", "A">>
      [] s = "s:" -> <<"s", ":">>
      [] s = "2024" -> <<"2", "0", "2", "4">>
      [] s = "2024-01-01T00:00:00Z" -> <<"2", "0", "2", "4", "-", "0", "1", "-", "0", "1", "T", "0", "0", ":", "0", "0", ":", "0", "0", "Z">>
      [] s = "2025-01-01T00:00:00Z" -> <<"2", "0", "2", "5", "-", "0", "1", "-", "0", "1", "T", "0", "0", ":", "0", "0", ":", "0", "0", "Z">>
      [] s = "1970-01-01T00:00:00Z" -> <<"1", "9", "7", "0", "-", "0", "1", "-", "0", "1", "T", "0", "0", ":", "0", "0", ":", "0", "0", "Z">>
      [] s = "S:Active" -> <<"S", ":", "A", "c", "t", "i", "v", "e">>
      [] s = "S:Resolved" -> <<"S", ":", "R", "e", "s", "o", "l", "v", "e", "d">>
      [] s = "S:resolved" -> <<"S", ":", "r", "e", "s", "o", "l", "v", "e", "d">>
      [] s = "S:Background" -> <<"S", ":", "B", "a", "c", "k", "g", "r", "o", "u", "n", "d">>
      [] s = "S:Archived" -> <<"S", ":", "A", "r", "c", "h", "i", "v", "e", "d">>
      [] s = "S:Done" -> <<"S", ":", "D", "o", "n", "e">>
      [] s = "junk" -> <<"j", "u", "n", "k">>
      [] OTHER -> <<>>

\* String.prototype.toLowerCase on one character
LowerChar(c) ==
    CASE c = "A" -> "a"
      [] c = "B" -> "b"
      [] c = "D" -> "d"
      [] c = "E" -> "e"
      [] c = "R" -> "r"
      [] c = "S" -> "s"
      [] c = "T" -> "t"
      [] c = "Z" -> "z"
      [] OTHER -> c

ToLowerCase(cs) == [i \in 1..Len(cs) |-> LowerChar(cs[i])]

\* the characters of a content string: its tokens, bracketed, joined by blanks
RECURSIVE ContentChars(_)
ContentChars(content) ==
    IF content = <<>> THEN <<>>
    ELSE LET tok == Head(content)
             cs == IF tok.k = "br" THEN <<"[">> \o Chars(tok.body) \o <<"]">>
                   ELSE Chars(tok.body)
         IN IF Tail(content) = <<>> THEN cs
            ELSE cs \o <<" ">> \o ContentChars(Tail(content))

\* String.prototype.includes on character sequences
StrIncludes(hay, needle) ==
    \E k \in 0..(Len(hay) - Len(needle)) :
        \A j \in 1..Len(needle) : hay[k + j] = needle[j]

----------------------------------------------------------------------------
(* Read operations *)

readGraph(graph) == graph

searchNodes(graph, queries) ==
    LET lowerCaseQueries == Map(queries, LAMBDA q : ToLowerCase(Chars(q)))
        Hit(cs) == Some(lowerCaseQueries,
                        LAMBDA query : StrIncludes(ToLowerCase(cs), query))
        EntityHit(e) ==
            \/ Hit(Chars(e.name))
            \/ Hit(Chars(e.entityType))
            \/ e.aliases # NoAliases
                 /\ Some(e.aliases, LAMBDA alias : Hit(Chars(alias)))
        filteredEntities == SelectSeq(graph.entities, EntityHit)
        entitiesMatchedByObservation ==
            {obs.entityName : obs \in {o \in Range(graph.observations) :
                                          Hit(ContentChars(o.content))}}
        matchingEntityNames ==
            {e.name : e \in Range(filteredEntities)} \cup entitiesMatchedByObservation
        finalEntities ==
            SelectSeq(graph.entities, LAMBDA e : e.name \in matchingEntityNames)
        finalEntityNamesSet == {e.name : e \in Range(finalEntities)}
    IN [entities |-> finalEntities,
        relations |-> SelectSeq(graph.relations,
                        LAMBDA r : r.from \in finalEntityNamesSet
                                     /\ r.to \in finalEntityNamesSet),
        observations |-> SelectSeq(graph.observations,
                        LAMBDA o : o.entityName \in finalEntityNamesSet)]

\* openNodes selecting an entity by one of its aliases too
openNodes_AliasToo(graph, names) ==
    LET filteredEntities ==
            SelectSeq(graph.entities,
                      LAMBDA e : \/ Includes(names, e.name)
                                 \/ \E alias \in Range(e.aliases) :
                                       Includes(names, alias))
        filteredEntityNames == {e.name : e \in Range(filteredEntities)}
    IN [entities |-> filteredEntities,
        relations |-> SelectSeq(graph.relations,
                        LAMBDA r : r.from \in filteredEntityNames
                                     /\ r.to \in filteredEntityNames),
        observations |-> SelectSeq(graph.observations,
                        LAMBDA o : o.entityName \in filteredEntityNames)]

openNodes(graph, names) ==
    LET filteredEntities ==
            SelectSeq(graph.entities, LAMBDA e : Includes(names, e.name))
        filteredEntityNames == {e.name : e \in Range(filteredEntities)}
    IN [entities |-> filteredEntities,
        relations |-> SelectSeq(graph.relations,
                        LAMBDA r : r.from \in filteredEntityNames
                                     /\ r.to \in filteredEntityNames),
        observations |-> SelectSeq(graph.observations,
                        LAMBDA o : o.entityName \in filteredEntityNames)]

TOTAL_OBSERVATION_LIMIT == 25
MAX_RECENT_RELATIONS == 50

\* Array.prototype.sort: a stable sort; Before(a, b) is "compare(a, b) < 0"
\* and After(a, b) is "compare(a, b) > 0"
RECURSIVE InsertSorted(_, _, _)
InsertSorted(sorted, x, after) ==
    IF sorted = <<>> THEN <<x>>
    ELSE LET l == sorted[Len(sorted)]
         IN IF after[l, x]
            THEN Append(InsertSorted(SubSeq(sorted, 1, Len(sorted) - 1), x, after), l)
            ELSE Append(sorted, x)

RECURSIVE SortFrom(_, _, _)
SortFrom(sorted, rest, after) ==
    IF rest = <<>> THEN sorted
    ELSE SortFrom(InsertSorted(sorted, Head(rest), after), Tail(rest), after)

Sort(s, After(_, _)) ==
    LET after == [i \in 1..Len(s), j \in 1..Len(s) |-> After(s[i], s[j])]
        order == SortFrom(<<>>, [i \in 1..Len(s) |-> i], after)
    IN [k \in 1..Len(s) |-> s[order[k]]]

\* arr.slice(0, n)
Slice(s, n) == SubSeq(s, 1, IF Len(s) < n THEN Len(s) ELSE n)

\* a comparator that puts the oldest createdAt first
RelationCompare_OldestFirst(a, b) == a.createdAt - b.createdAt

\* the comparator of the relation sort: newest createdAt first
RelationCompare(a, b) == b.createdAt - a.createdAt

\* a comparator that ignores createdAt when the timestamps do not decide
ObservationCompare_NoTieBreak(a, b) ==
    LET validTsA == a.timestamp # Undefined /\ DateParse(a.timestamp) # NaN
        validTsB == b.timestamp # Undefined /\ DateParse(b.timestamp) # NaN
        timeDiff == DateParse(b.timestamp) - DateParse(a.timestamp)
    IN IF validTsA /\ ~validTsB THEN -1
       ELSE IF ~validTsA /\ validTsB THEN 1
       ELSE IF validTsA /\ validTsB /\ timeDiff # 0 THEN timeDiff
       ELSE 0

\* the comparator of the observation sort
ObservationCompare(a, b) ==
    LET validTsA == a.timestamp # Undefined /\ DateParse(a.timestamp) # NaN
        validTsB == b.timestamp # Undefined /\ DateParse(b.timestamp) # NaN
        timeDiff == DateParse(b.timestamp) - DateParse(a.timestamp)
    IN IF validTsA /\ ~validTsB THEN -1
       ELSE IF ~validTsA /\ validTsB THEN 1
       ELSE IF validTsA /\ validTsB /\ timeDiff # 0 THEN timeDiff
       ELSE b.createdAt - a.createdAt

\* a resolution that adds the alias match even when an entity has the exact name
getContextInfo_AliasToo(graph, inputNames) ==
    LET Resolve(inputName) ==
            LET exact == FindIndex(graph.entities, LAMBDA e : e.name = inputName)
                alias == FindIndex(graph.entities,
                            LAMBDA e : e.aliases # NoAliases
                                         /\ Includes(e.aliases, inputName))
            IN (IF exact # 0 THEN {graph.entities[exact].name} ELSE {})
               \cup (IF alias # 0 THEN {graph.entities[alias].name} ELSE {})
        initialMatchingNames == UNION {Resolve(n) : n \in Range(inputNames)}
        directlyInvolvingRelations ==
            SelectSeq(graph.relations,
                      LAMBDA r : r.from \in initialMatchingNames
                                   \/ r.to \in initialMatchingNames)
        finalEntityNames ==
            initialMatchingNames
                \cup {r.from : r \in Range(directlyInvolvingRelations)}
                \cup {r.to : r \in Range(directlyInvolvingRelations)}
        sortedRelations ==
            Sort(directlyInvolvingRelations,
                 LAMBDA a, b : RelationCompare(a, b) > 0)
        relevantObservationsRaw ==
            SelectSeq(graph.observations,
                      LAMBDA o : o.entityName \in finalEntityNames)
        sortedObservations ==
            Sort(relevantObservationsRaw,
                 LAMBDA a, b : ObservationCompare(a, b) > 0)
    IN IF initialMatchingNames = {} THEN EmptyGraph
       ELSE [entities |-> SelectSeq(graph.entities,
                            LAMBDA e : e.name \in finalEntityNames),
             relations |-> Slice(sortedRelations, MAX_RECENT_RELATIONS),
             observations |-> Slice(sortedObservations, TOTAL_OBSERVATION_LIMIT)]

\* a context without the entities at the other end of the relations
getContextInfo_NoExpansion(graph, inputNames) ==
    LET Resolve(inputName) ==
            LET exact == FindIndex(graph.entities, LAMBDA e : e.name = inputName)
                alias == FindIndex(graph.entities,
                            LAMBDA e : e.aliases # NoAliases
                                         /\ Includes(e.aliases, inputName))
            IN IF exact # 0 THEN {graph.entities[exact].name}
               ELSE IF alias # 0 THEN {graph.entities[alias].name}
               ELSE {}
        initialMatchingNames == UNION {Resolve(n) : n \in Range(inputNames)}
        directlyInvolvingRelations ==
            SelectSeq(graph.relations,
                      LAMBDA r : r.from \in initialMatchingNames
                                   \/ r.to \in initialMatchingNames)
        finalEntityNames == initialMatchingNames
        sortedRelations ==
            Sort(directlyInvolvingRelations,
                 LAMBDA a, b : RelationCompare(a, b) > 0)
        relevantObservationsRaw ==
            SelectSeq(graph.observations,
                      LAMBDA o : o.entityName \in finalEntityNames)
        sortedObservations ==
            Sort(relevantObservationsRaw,
                 LAMBDA a, b : ObservationCompare(a, b) > 0)
    IN IF initialMatchingNames = {} THEN EmptyGraph
       ELSE [entities |-> SelectSeq(graph.entities,
                            LAMBDA e : e.name \in finalEntityNames),
             relations |-> Slice(sortedRelations, MAX_RECENT_RELATIONS),
             observations |-> Slice(sortedObservations, TOTAL_OBSERVATION_LIMIT)]

\* a context that limits the observations of each entity, not their total
getContextInfo_LimitPerEntity(graph, inputNames) ==
    LET Resolve(inputName) ==
            LET exact == FindIndex(graph.entities, LAMBDA e : e.name = inputName)
                alias == FindIndex(graph.entities,
                            LAMBDA e : e.aliases # NoAliases
                                         /\ Includes(e.aliases, inputName))
            IN IF exact # 0 THEN {graph.entities[exact].name}
               ELSE IF alias # 0 THEN {graph.entities[alias].name}
               ELSE {}
        initialMatchingNames == UNION {Resolve(n) : n \in Range(inputNames)}
        directlyInvolvingRelations ==
            SelectSeq(graph.relations,
                      LAMBDA r : r.from \in initialMatchingNames
                                   \/ r.to \in initialMatchingNames)
        finalEntityNames ==
            initialMatchingNames
                \cup {r.from : r \in Range(directlyInvolvingRelations)}
                \cup {r.to : r \in Range(directlyInvolvingRelations)}
        sortedRelations ==
            Sort(directlyInvolvingRelations,
                 LAMBDA a, b : RelationCompare(a, b) > 0)
        relevantObservationsRaw ==
            SelectSeq(graph.observations,
                      LAMBDA o : o.entityName \in finalEntityNames)
        sortedObservations ==
            Sort(relevantObservationsRaw,
                 LAMBDA a, b : ObservationCompare(a, b) > 0)
    IN IF initialMatchingNames = {} THEN EmptyGraph
       ELSE [entities |-> SelectSeq(graph.entities,
                            LAMBDA e : e.name \in finalEntityNames),
             relations |-> Slice(sortedRelations, MAX_RECENT_RELATIONS),
             observations |->
                 SelectSeq(sortedObservations,
                     LAMBDA o :
                         Len(SelectSeq(sortedObservations,
                                       LAMBDA x : x.entityName = o.entityName))
                             <= TOTAL_OBSERVATION_LIMIT)]

getContextInfo(graph, inputNames) ==
    LET Resolve(inputName) ==
            LET exact == FindIndex(graph.entities, LAMBDA e : e.name = inputName)
                alias == FindIndex(graph.entities,
                            LAMBDA e : e.aliases # NoAliases
                                         /\ Includes(e.aliases, inputName))
            IN IF exact # 0 THEN {graph.entities[exact].name}
               ELSE IF alias # 0 THEN {graph.entities[alias].name}
               ELSE {}
        initialMatchingNames == UNION {Resolve(n) : n \in Range(inputNames)}
        directlyInvolvingRelations ==
            SelectSeq(graph.relations,
                      LAMBDA r : r.from \in initialMatchingNames
                                   \/ r.to \in initialMatchingNames)
        finalEntityNames ==
            initialMatchingNames
                \cup {r.from : r \in Range(directlyInvolvingRelations)}
                \cup {r.to : r \in Range(directlyInvolvingRelations)}
        sortedRelations ==
            Sort(directlyInvolvingRelations,
                 LAMBDA a, b : RelationCompare(a, b) > 0)
        relevantObservationsRaw ==
            SelectSeq(graph.observations,
                      LAMBDA o : o.entityName \in finalEntityNames)
        sortedObservations ==
            Sort(relevantObservationsRaw,
                 LAMBDA a, b : ObservationCompare(a, b) > 0)
    IN IF initialMatchingNames = {} THEN EmptyGraph
       ELSE [entities |-> SelectSeq(graph.entities,
                            LAMBDA e : e.name \in finalEntityNames),
             relations |-> Slice(sortedRelations, MAX_RECENT_RELATIONS),
             observations |-> Slice(sortedObservations, TOTAL_OBSERVATION_LIMIT)]

----------------------------------------------------------------------------
(* The sequential store: one call at a time, each call a whole handler.     *)
(* Every action takes the set its input is drawn from and the limits of the *)
(* specification it belongs to.                                             *)

\* the sizes of the collections and the versions stay within the limits
Bounded(graph, lim) ==
    /\ Len(graph.entities) <= lim.entities
    /\ Len(graph.relations) <= lim.relations
    /\ Len(graph.observations) <= lim.observations
    /\ \A e \in Range(graph.entities) : e.version <= lim.version
    /\ \A r \in Range(graph.relations) : r.version <= lim.version
    /\ \A o \in Range(graph.observations) : o.version <= lim.version

\* a mutating call: load, mutate in memory, save when the operation asks
Call(op, args, r, lim) ==
    /\ phase = "serving"
    /\ procs = <<>>
    /\ ~loadGraphThrows(file)
    /\ Bounded(r.graph, lim)
    /\ file' = IF r.save THEN saveGraph(r.graph) ELSE file
    /\ last' = [op |-> op, args |-> args, ret |-> r.ret, pre |-> file,
                at |-> clock, saved |-> r.save, threw |-> r.threw]
    /\ UNCHANGED <<clock, phase, procs>>

\* a read call that writes back what it loaded
Read_SavesBack(op, args, result) ==
    /\ phase = "serving"
    /\ procs = <<>>
    /\ ~loadGraphThrows(file)
    /\ last' = [op |-> op, args |-> args, ret |-> result, pre |-> file,
                at |-> clock, saved |-> FALSE, threw |-> FALSE]
    /\ file' = saveGraph(loadGraph(file))
    /\ UNCHANGED <<clock, phase, procs>>

\* a read call: load and answer
Read(op, args, result) ==
    /\ phase = "serving"
    /\ procs = <<>>
    /\ ~loadGraphThrows(file)
    /\ last' = [op |-> op, args |-> args, ret |-> result, pre |-> file,
                at |-> clock, saved |-> FALSE, threw |-> FALSE]
    /\ UNCHANGED <<file, clock, phase, procs>>

CreateEntities(inputs, lim) ==
    \E entities \in inputs :
        Call("createEntities", entities,
             createEntities(loadGraph(file), entities, clock), lim)

CreateRelations(inputs, lim) ==
    \E relations \in inputs :
        Call("createRelations", relations,
             createRelations(loadGraph(file), relations, clock), lim)

AddObservations(inputs, randoms, lim) ==
    \E observationsInput \in inputs, rands \in randoms :
        Call("addObservations", observationsInput,
             addObservations(loadGraph(file), observationsInput, clock, rands),
             lim)

DeleteEntities(inputs, lim) ==
    \E entityNames \in inputs :
        Call("deleteEntities", entityNames,
             deleteEntities(loadGraph(file), entityNames), lim)

DeleteObservations(inputs, lim) ==
    \E deletions \in inputs :
        Call("deleteObservations", deletions,
             deleteObservations(loadGraph(file), deletions), lim)

DeleteRelations(inputs, lim) ==
    \E relations \in inputs :
        Call("deleteRelations", relations,
             deleteRelations(loadGraph(file), relations), lim)

UpdateEntities(inputs, lim) ==
    \E entitiesToUpdate \in inputs :
        Call("updateEntities", entitiesToUpdate,
             updateEntities(loadGraph(file), entitiesToUpdate, clock), lim)

UpdateRelations(inputs, lim) ==
    \E relations \in inputs :
        Call("updateRelations", relations,
             updateRelations(loadGraph(file), relations, clock), lim)

ReadGraph ==
    Read("readGraph", <<>>, readGraph(loadGraph(file)))

SearchNodes(inputs) ==
    \E queries \in inputs :
        Read("searchNodes", queries, searchNodes(loadGraph(file), queries))

OpenNodes(inputs) ==
    \E names \in inputs :
        Read("openNodes", names, openNodes(loadGraph(file), names))

GetContextInfo(inputs) ==
    \E inputNames \in inputs :
        Read("getContextInfo", inputNames,
             getContextInfo(loadGraph(file), inputNames))

\* main(): the cleanup runs before the server connects its transport
PerformStartupCleanup ==
    /\ phase = "starting"
    /\ ~loadGraphThrows(file)
    /\ LET r == performStartupCleanup(loadGraph(file))
       IN /\ file' = IF r.save THEN saveGraph(r.graph) ELSE file
          /\ last' = [op |-> "performStartupCleanup", args |-> <<>>,
                      ret |-> r.ret, pre |-> file, at |-> clock,
                      saved |-> r.save, threw |-> FALSE]
    /\ phase' = "serving"
    /\ UNCHANGED <<clock, procs>>

\* the end of a line that was not written whole
Truncated == [text |-> "truncated"]

\* fs.writeFile(path, data) that fails or is cut short: the file as it was
\* (it could not be opened), or the file emptied on opening and some of the
\* lines written, the last of them possibly in part
writeFileFailures(prior, new) ==
    {prior} \cup
    {[new EXCEPT !.lines = SubSeq(@, 1, k) \o rest] :
        k \in 0..(Len(new.lines) - 1), rest \in {<<>>, <<Truncated>>}}

\* a mutating call whose saveGraph fails: writeFile rejects, saveGraph logs
\* the error and throws it again, the request fails
CallSaveFails(op, args, r, lim) ==
    /\ phase = "serving"
    /\ procs = <<>>
    /\ ~loadGraphThrows(file)
    /\ Bounded(r.graph, lim)
    /\ r.save
    /\ \E f \in writeFileFailures(file, saveGraph(r.graph)) : file' = f
    /\ last' = [op |-> op, args |-> args, ret |-> "writeError", pre |-> file,
                at |-> clock, saved |-> FALSE, threw |-> TRUE]
    /\ UNCHANGED <<clock, phase, procs>>

CreateEntitiesSaveFails(inputs, lim) ==
    \E entities \in inputs :
        CallSaveFails("createEntities", entities,
                      createEntities(loadGraph(file), entities, clock), lim)

CreateRelationsSaveFails(inputs, lim) ==
    \E relations \in inputs :
        CallSaveFails("createRelations", relations,
                      createRelations(loadGraph(file), relations, clock), lim)

\* a call whose loadGraph throws: the handler awaits nothing else and the
\* request fails with the error
LoadRejects(calls) ==
    \E c \in calls :
        /\ phase = "serving"
        /\ procs = <<>>
        /\ loadGraphThrows(file)
        /\ last' = [op |-> c.op, args |-> c.args, ret |-> file.readError,
                    pre |-> file, at |-> clock, saved |-> FALSE, threw |-> TRUE]
        /\ UNCHANGED <<file, clock, phase, procs>>

\* main() when the cleanup's loadGraph throws: main().catch logs the error
\* and the process exits; it is in "starting" again when started anew
StartupRejects ==
    /\ phase = "starting"
    /\ loadGraphThrows(file)
    /\ last' = [op |-> "performStartupCleanup", args |-> <<>>,
                ret |-> file.readError, pre |-> file, at |-> clock,
                saved |-> FALSE, threw |-> TRUE]
    /\ UNCHANGED <<file, clock, phase, procs>>

\* something other than the server writes a line into the file, anywhere
ExternalLine(lines, maxLines) ==
    /\ file.exists
    /\ Len(file.lines) < maxLines
    /\ \E line \in lines, k \in 0..Len(file.lines) :
          file' = [file EXCEPT
                     !.lines = SubSeq(@, 1, k) \o <<line>> \o SubSeq(@, k + 1, Len(@))]
    /\ UNCHANGED <<clock, phase, last, procs>>

\* the file stops being readable (its permissions change, the disk fails)
ReadFault(errors) ==
    /\ file.exists
    /\ file.readError = "none"
    /\ \E e \in errors : file' = [file EXCEPT !.readError = e]
    /\ UNCHANGED <<clock, phase, last, procs>>

\* the file is readable again
ReadRepair ==
    /\ file.exists
    /\ file.readError # "none"
    /\ file' = [file EXCEPT !.readError = "none"]
    /\ UNCHANGED <<clock, phase, last, procs>>

\* the process exits and is started again; the file stays
Restart ==
    /\ phase = "serving"
    /\ procs = <<>>
    /\ phase' = "starting"
    /\ UNCHANGED <<file, clock, last, procs>>

\* time passes
Tick ==
    /\ clock < MaxClock
    /\ clock' = clock + 1
    /\ UNCHANGED <<file, phase, last, procs>>

NoFile == [exists |-> FALSE, readError |-> "none", lines |-> <<>>]

Init ==
    /\ file = NoFile
    /\ clock = 0
    /\ phase = "starting"
    /\ last = [op |-> "none", args |-> <<>>, ret |-> <<>>, pre |-> NoFile,
               at |-> 0, saved |-> FALSE, threw |-> FALSE]
    /\ procs = <<>>

----------------------------------------------------------------------------
(* SpecGraph: entities and relations, with batches of two *)

GraphLimits ==
    [entities |-> MaxEntities, relations |-> MaxRelations, observations |-> 0,
     version |-> MaxVersion]

EntityIn(name, aliases) ==
    [name |-> name, entityType |-> "person", aliases |-> aliases]

GraphEntityInputs ==
    {EntityIn("A", NoAliases), EntityIn("A", <<"Al">>), EntityIn("B", NoAliases)}

GraphEntityBatches ==
    SeqsUpTo(GraphEntityInputs, 2) \cup {<<EntityIn("", NoAliases)>>}

UpdateIn(name, newName, entityType, aliases) ==
    [name |-> name, newName |-> newName, entityType |-> entityType,
     aliases |-> aliases]

GraphUpdateInputs ==
    {UpdateIn(n, m, t, NoAliases) :
        n \in Names, m \in {Undefined, "A", " B "}, t \in {Undefined, ""}}

GraphRenameInputs ==
    {UpdateIn(n, m, Undefined, NoAliases) : n \in Names, m \in {"A", " B "}}

\* batches of one entry, and batches of two renames
GraphUpdateBatches ==
    SeqsUpTo(GraphUpdateInputs, 1) \cup [1..2 -> GraphRenameInputs]

RelationIn(from, to) == [from |-> from, to |-> to, relationType |-> "knows"]

GraphRelationInputs ==
    {RelationIn("A", "B"), RelationIn("B", "B"), RelationIn("A", "A")}

GraphRelationBatches ==
    SeqsUpTo(GraphRelationInputs, 2) \cup {<<RelationIn("", "B")>>}

GraphNameLists == {<<>>, <<"A">>, <<"B">>, <<"A", "B">>}

NextGraph ==
    \/ PerformStartupCleanup
    \/ CreateEntities(GraphEntityBatches, GraphLimits)
    \/ CreateRelations(GraphRelationBatches, GraphLimits)
    \/ DeleteEntities(GraphNameLists, GraphLimits)
    \/ DeleteRelations(SeqsUpTo(GraphRelationInputs, 1), GraphLimits)
    \/ UpdateEntities(GraphUpdateBatches, GraphLimits)
    \/ UpdateRelations(GraphRelationBatches, GraphLimits)

SpecGraph == Init /\ [][NextGraph]_vars

----------------------------------------------------------------------------
(* SpecObs: observations of two entities, the startup cleanup and the reads *)

ObsLimits ==
    [entities |-> MaxEntities, relations |-> 0,
     observations |-> MaxObservations, version |-> MaxVersion]

CActive == <<Br(TS2024), Br("S:Active"), Word("tea")>>
CResolved == <<Br(TS2025), Br("S:Resolved"), Word("tea")>>
CArchived == <<Br(TS2024), Br("S:Archived"), Word("tea")>>
CPlain == <<Word("tea")>>

ObsContents == {CActive, CResolved, CArchived}

GroupIn(entityName, contents) ==
    [entityName |-> entityName, contents |-> contents]

\* one group of up to two contents
ObsInputs ==
    {<<GroupIn(n, cs)>> : n \in Names, cs \in SeqsUpTo(ObsContents, 2)}

\* the random suffixes of the ids a call draws
RandSeqs == [1..2 -> 0..MaxRand]

DeletionIn(entityName, observations) ==
    [entityName |-> entityName, observations |-> observations]

ObsDeletions ==
    {<<DeletionIn(n, <<c>>)>> : n \in Names, c \in ObsContents}

ObsEntityBatches == {<<EntityIn("A", NoAliases)>>, <<EntityIn("B", NoAliases)>>}

NextObs ==
    \/ PerformStartupCleanup
    \/ Restart
    \/ CreateEntities(ObsEntityBatches, ObsLimits)
    \/ DeleteEntities({<<"A">>, <<"B">>}, ObsLimits)
    \/ AddObservations(ObsInputs, RandSeqs, ObsLimits)
    \/ DeleteObservations(ObsDeletions, ObsLimits)
    \/ UpdateEntities({<<UpdateIn("A", "B", Undefined, NoAliases)>>}, ObsLimits)
    \/ ReadGraph
    \/ SearchNodes({<<"TEA">>, <<"b">>})
    \/ OpenNodes({<<"A">>, <<"A", "B">>})
    \/ GetContextInfo({<<"A">>, <<"B">>})

SpecObs == Init /\ [][NextObs]_vars

----------------------------------------------------------------------------
(* Spec: the whole store, every operation, calls of one entry *)

StoreLimits ==
    [entities |-> MaxEntities, relations |-> MaxRelations,
     observations |-> MaxObservations, version |-> MaxVersion]

StoreEntityBatches ==
    {<<EntityIn("A", NoAliases)>>, <<EntityIn("B", <<"Al">>)>>,
     <<EntityIn("A", NoAliases), EntityIn("A", NoAliases)>>}

StoreRelationBatches == SeqsUpTo(GraphRelationInputs, 1) \ {<<>>}

StoreObsInputs == {<<GroupIn(n, <<CPlain>>)>> : n \in Names}

StoreUpdateBatches ==
    {<<UpdateIn("A", " B ", Undefined, NoAliases)>>,
     <<UpdateIn("B", "A", Undefined, NoAliases)>>,
     <<UpdateIn("A", Undefined, "", <<"Al">>)>>}

Next ==
    \/ PerformStartupCleanup
    \/ Restart
    \/ CreateEntities(StoreEntityBatches, StoreLimits)
    \/ CreateRelations(StoreRelationBatches, StoreLimits)
    \/ AddObservations(StoreObsInputs, {<<0>>, <<1>>}, StoreLimits)
    \/ DeleteEntities(GraphNameLists \ {<<>>}, StoreLimits)
    \/ DeleteObservations({<<DeletionIn("A", <<CPlain>>)>>}, StoreLimits)
    \/ DeleteRelations({<<RelationIn("A", "B")>>}, StoreLimits)
    \/ UpdateEntities(StoreUpdateBatches, StoreLimits)
    \/ UpdateRelations({<<RelationIn("A", "B")>>}, StoreLimits)
    \/ ReadGraph
    \/ SearchNodes({<<"a">>})
    \/ OpenNodes({<<"A">>})
    \/ GetContextInfo({<<"Al">>})

Spec == Init /\ [][Next]_vars

----------------------------------------------------------------------------
(* SpecRename: updateEntities over entities, relations and observations;   *)
(* one entity name carries blanks around it                                *)

RenameLimits ==
    [entities |-> MaxEntities, relations |-> MaxRelations, observations |-> 1,
     version |-> MaxVersion + 1]

RenameEntityBatches ==
    {<<EntityIn("A", NoAliases)>>, <<EntityIn("B", NoAliases)>>,
     <<EntityIn(" B ", NoAliases)>>,
     <<EntityIn("A", NoAliases), EntityIn("A", NoAliases)>>}

\* a rename to a padded name, a rename, an entry for an entity that is not
\* stored, and an update of the type and the aliases
RenameUpdateInputs ==
    {UpdateIn("A", " B ", Undefined, NoAliases),
     UpdateIn("B", "A", Undefined, NoAliases),
     UpdateIn("C", Undefined, "place", NoAliases),
     UpdateIn("A", Undefined, "place", <<"Al">>)}

RenameUpdateBatches == SeqsUpTo(RenameUpdateInputs, 2) \ {<<>>}

NextRename ==
    \/ PerformStartupCleanup
    \/ CreateEntities(RenameEntityBatches, RenameLimits)
    \/ CreateRelations({<<RelationIn("A", "A")>>, <<RelationIn("A", "B")>>,
                        <<RelationIn("B", "B")>>}, RenameLimits)
    \/ AddObservations(StoreObsInputs, {<<0>>}, RenameLimits)
    \/ DeleteEntities({<<"A">>, <<"B">>, <<" B ">>}, RenameLimits)
    \/ UpdateEntities(RenameUpdateBatches, RenameLimits)

SpecRename == Init /\ [][NextRename]_vars

----------------------------------------------------------------------------
(* SpecGroups: addObservations calls of one or two groups, beside a relation *)

GroupInputs ==
    {GroupIn(n, <<c>>) : n \in Names, c \in {CActive, CResolved}}

GroupBatches == SeqsUpTo(GroupInputs, 2) \ {<<>>}

GroupLimits ==
    [entities |-> MaxEntities, relations |-> 1,
     observations |-> MaxObservations, version |-> MaxVersion]

NextGroups ==
    \/ PerformStartupCleanup
    \/ CreateEntities(ObsEntityBatches, GroupLimits)
    \/ CreateRelations({<<RelationIn("A", "B")>>}, GroupLimits)
    \/ DeleteEntities({<<"A">>, <<"B">>}, GroupLimits)
    \/ AddObservations(GroupBatches, RandSeqs, GroupLimits)
    \/ DeleteObservations(ObsDeletions, GroupLimits)

SpecGroups == Init /\ [][NextGroups]_vars

----------------------------------------------------------------------------
(* SpecParse: contents whose leading bracket is not a date *)

CBadResolved == <<Br("note"), Br("S:Resolved"), Word("tea")>>
CBadActive == <<Br("note"), Br("S:Active"), Word("tea")>>
CBadPlain == <<Br("note"), Word("tea")>>
CStatusOnly == <<Br("S:Resolved"), Word("tea")>>

ParseContents == {CActive, CBadResolved, CBadActive, CBadPlain, CStatusOnly}

ParseInputs ==
    {<<GroupIn("A", cs)>> : cs \in SeqsUpTo(ParseContents, 2) \ {<<>>}}

NextParse ==
    \/ PerformStartupCleanup
    \/ CreateEntities({<<EntityIn("A", NoAliases)>>}, ObsLimits)
    \/ AddObservations(ParseInputs, RandSeqs, ObsLimits)
    \/ DeleteObservations({<<DeletionIn("A", <<c>>)>> : c \in ParseContents},
                          ObsLimits)
    \/ ReadGraph

SpecParse == Init /\ [][NextParse]_vars

----------------------------------------------------------------------------
(* SpecContext: getContextInfo over three entities, one of them with an    *)
(* alias that is the name of another                                       *)

ContextLimits ==
    [entities |-> MaxEntities + 1, relations |-> MAX_RECENT_RELATIONS + 2,
     observations |-> 1, version |-> MaxVersion]

ContextEntityBatches ==
    {<<EntityIn("A", <<"B">>)>>, <<EntityIn("A", NoAliases)>>,
     <<EntityIn("B", NoAliases)>>, <<EntityIn("C", NoAliases)>>}

\* single relations, and one list that repeats a relation as many times as
\* the context returns relations
ContextRelationBatches ==
    {<<RelationIn("A", "B")>>, <<RelationIn("B", "C")>>, <<RelationIn("B", "B")>>,
     [i \in 1..MAX_RECENT_RELATIONS |-> RelationIn("A", "B")]}

ContextNameLists == {<<"A">>, <<"B">>, <<"C">>, <<"D">>, <<"D", "B">>}

NextContext ==
    \/ PerformStartupCleanup
    \/ CreateEntities(ContextEntityBatches, ContextLimits)
    \/ CreateRelations(ContextRelationBatches, ContextLimits)
    \/ AddObservations({<<GroupIn("A", <<CActive>>)>>}, {<<0>>}, ContextLimits)
    \/ DeleteEntities({<<"A">>, <<"B">>}, ContextLimits)
    \/ GetContextInfo(ContextNameLists)

SpecContext == Init /\ [][NextContext]_vars

----------------------------------------------------------------------------
(* SpecCaps: getContextInfo over more relations and observations than it   *)
(* returns, created at different times                                     *)

CapLimits ==
    [entities |-> MaxEntities, relations |-> MAX_RECENT_RELATIONS + 2,
     observations |-> TOTAL_OBSERVATION_LIMIT + 2, version |-> MaxVersion]

\* distinct free texts
Texts ==
    <<
      "t01", "t02", "t03", "t04", "t05", "t06", "t07", "t08", "t09",
      "t10", "t11", "t12", "t13", "t14", "t15", "t16", "t17", "t18",
      "t19", "t20", "t21", "t22", "t23", "t24", "t25", "t26", "t27"
    >>

\* the i-th content of a long contents list: one in three is plain text, one
\* Active with the older timestamp, one Resolved with the newer timestamp
CapContent(i) ==
    CASE i % 3 = 0 -> <<Word(Texts[i])>>
      [] i % 3 = 1 -> <<Br(TS2024), Br("S:Active"), Word(Texts[i])>>
      [] OTHER -> <<Br(TS2025), Br("S:Resolved"), Word(Texts[i])>>

\* two contents lists that together hold more contents than the context
\* returns observations
CapHalf == (TOTAL_OBSERVATION_LIMIT + 1) \div 2

CapObsInputs ==
    {<<GroupIn("A", [i \in 1..CapHalf |-> CapContent(i)])>>,
     <<GroupIn("B", [i \in 1..(CapHalf + 1) |-> CapContent(CapHalf + i)])>>}

CapRands ==
    {[i \in 1..(CapHalf + 1) |-> 0],
     [i \in 1..(CapHalf + 1) |-> i % (MaxRand + 1)]}

CapRelationBatches ==
    {[i \in 1..MAX_RECENT_RELATIONS |-> RelationIn("A", "B")],
     <<RelationIn("A", "A")>>, <<RelationIn("B", "A")>>}

NextCaps ==
    \/ PerformStartupCleanup
    \/ Tick
    \/ CreateEntities({<<EntityIn("A", NoAliases), EntityIn("B", NoAliases)>>},
                      CapLimits)
    \/ CreateRelations(CapRelationBatches, CapLimits)
    \/ AddObservations(CapObsInputs, CapRands, CapLimits)
    \/ GetContextInfo({<<"A">>, <<"B">>})

SpecCaps == Init /\ [][NextCaps]_vars

----------------------------------------------------------------------------
(* SpecSearch: searchNodes and openNodes over entities with and without an *)
(* alias, relations between them and observations                          *)

SearchLimits ==
    [entities |-> MaxEntities, relations |-> MaxRelations, observations |-> 1,
     version |-> MaxVersion]

SearchEntityBatches ==
    {<<EntityIn("A", NoAliases)>>, <<EntityIn("B", <<"Al">>)>>,
     <<EntityIn("A", NoAliases), EntityIn("A", <<"Al">>)>>}

SearchObsInputs == {<<GroupIn(n, <<CPlain>>)>> : n \in Names}

SearchQueries == {<<"TEA">>, <<"al">>, <<"b">>, <<"milk">>, <<"milk", "b">>}

SearchNameLists == {<<"A">>, <<"B">>, <<"Al">>, <<"A", "B">>}

NextSearch ==
    \/ PerformStartupCleanup
    \/ CreateEntities(SearchEntityBatches, SearchLimits)
    \/ CreateRelations(StoreRelationBatches, SearchLimits)
    \/ AddObservations(SearchObsInputs, {<<0>>}, SearchLimits)
    \/ DeleteEntities({<<"A">>}, SearchLimits)
    \/ SearchNodes(SearchQueries)
    \/ OpenNodes(SearchNameLists)

SpecSearch == Init /\ [][NextSearch]_vars

----------------------------------------------------------------------------
(* SpecDelete: deleteObservations and deleteRelations over records that    *)
(* differ from the targeted ones in one field                              *)

DeleteLimits ==
    [entities |-> MaxEntities, relations |-> MaxRelations + 1,
     observations |-> MaxObservations + 1, version |-> MaxVersion]

CMilk == <<Word("milk")>>

Likes(from, to) == [from |-> from, to |-> to, relationType |-> "likes"]

DeleteRelationInputs == {RelationIn("A", "B"), Likes("A", "B"), RelationIn("B", "A")}

DeleteRelationLists == SeqsUpTo(DeleteRelationInputs, 2)

DeleteObsInputs ==
    {<<GroupIn("A", <<CPlain, CMilk>>)>>, <<GroupIn("B", <<CPlain>>)>>,
     <<GroupIn("B", <<CActive>>)>>}

DeleteObsLists ==
    {<<DeletionIn("A", <<CPlain>>)>>, <<DeletionIn("B", <<CPlain>>)>>,
     <<DeletionIn("A", <<CMilk, CActive>>)>>,
     <<DeletionIn("B", <<CMilk>>), DeletionIn("A", <<CPlain>>)>>,
     <<DeletionIn("A", <<>>)>>}

NextDelete ==
    \/ PerformStartupCleanup
    \/ CreateEntities({<<EntityIn("A", NoAliases), EntityIn("B", NoAliases)>>},
                      DeleteLimits)
    \/ CreateRelations(SeqsUpTo(DeleteRelationInputs, 1) \ {<<>>}, DeleteLimits)
    \/ AddObservations(DeleteObsInputs, {<<0, 0>>, <<0, 1>>}, DeleteLimits)
    \/ DeleteObservations(DeleteObsLists, DeleteLimits)
    \/ DeleteRelations(DeleteRelationLists, DeleteLimits)

SpecDelete == Init /\ [][NextDelete]_vars

----------------------------------------------------------------------------
(* SpecPersist: saves of graphs that hold all three kinds of record, some  *)
(* of them structurally invalid                                            *)

PersistLimits ==
    [entities |-> MaxEntities, relations |-> MaxRelations,
     observations |-> MaxObservations, version |-> MaxVersion]

PersistRelationBatches ==
    {<<RelationIn("A", "B")>>, <<RelationIn("", "B")>>,
     <<RelationIn("B", "A"), RelationIn("", "B")>>}

PersistObsInputs ==
    {<<GroupIn("A", <<CPlain>>)>>, <<GroupIn("B", <<CActive>>)>>,
     <<GroupIn("A", <<CBadPlain>>)>>}

PersistRands == {<<0>>, <<1>>}

PersistUpdateBatches ==
    {<<UpdateIn("A", Undefined, "", NoAliases)>>,
     <<UpdateIn("B", Undefined, Undefined, <<"Al">>)>>}

NextPersist ==
    \/ PerformStartupCleanup
    \/ Restart
    \/ CreateEntities({<<EntityIn("A", NoAliases)>>, <<EntityIn("B", NoAliases)>>},
                      PersistLimits)
    \/ CreateRelations(PersistRelationBatches, PersistLimits)
    \/ AddObservations(PersistObsInputs, PersistRands, PersistLimits)
    \/ UpdateEntities(PersistUpdateBatches, PersistLimits)
    \/ DeleteRelations({<<RelationIn("A", "B")>>}, PersistLimits)

SpecPersist == Init /\ [][NextPersist]_vars

----------------------------------------------------------------------------
(* SpecLoad: loads of a file that is missing, that holds lines the server  *)
(* did not write, or that cannot be read                                   *)

LoadLimits ==
    [entities |-> MaxEntities, relations |-> 1, observations |-> 1,
     version |-> MaxVersion]

\* text that is not JSON, JSON of an unknown type, an entity without a type
BadLines ==
    {[text |-> "junk"], [json |-> [type |-> "note"]],
     [json |-> MkEntity("A", "", <<>>, 0, 1)]}

MaxLines == 4

LoadCalls ==
    {[op |-> "readGraph", args |-> <<>>],
     [op |-> "createEntities", args |-> <<EntityIn("A", NoAliases)>>]}

NextLoad ==
    \/ PerformStartupCleanup
    \/ StartupRejects
    \/ Restart
    \/ CreateEntities({<<EntityIn("A", NoAliases)>>, <<EntityIn("B", NoAliases)>>},
                      LoadLimits)
    \/ CreateRelations({<<RelationIn("A", "B")>>}, LoadLimits)
    \/ AddObservations({<<GroupIn("A", <<CPlain>>)>>}, {<<0>>}, LoadLimits)
    \/ ReadGraph
    \/ LoadRejects(LoadCalls)
    \/ ExternalLine(BadLines, MaxLines)
    \/ ReadFault({"EACCES"})
    \/ ReadRepair

SpecLoad == Init /\ [][NextLoad]_vars

----------------------------------------------------------------------------
(* SpecCrash: calls whose save fails or is cut short, and calls that throw *)
(* before they save                                                        *)

CrashLimits ==
    [entities |-> MaxEntities, relations |-> MaxRelations, observations |-> 0,
     version |-> MaxVersion]

CrashEntityBatches ==
    {<<EntityIn("A", NoAliases)>>, <<EntityIn("B", NoAliases)>>}

CrashRelationBatches ==
    {<<RelationIn("A", "B")>>, <<RelationIn("B", "A")>>}

NextCrash ==
    \/ PerformStartupCleanup
    \/ Restart
    \/ CreateEntities(CrashEntityBatches, CrashLimits)
    \/ CreateEntitiesSaveFails(CrashEntityBatches, CrashLimits)
    \/ CreateRelations(CrashRelationBatches, CrashLimits)
    \/ CreateRelationsSaveFails(CrashRelationBatches, CrashLimits)
    \/ UpdateRelations(CrashRelationBatches, CrashLimits)
    \/ ReadGraph

SpecCrash == Init /\ [][NextCrash]_vars

----------------------------------------------------------------------------
(* SpecRel: relations while time passes *)

RelLimits ==
    [entities |-> 0, relations |-> MaxRelations, observations |-> 0,
     version |-> MaxVersion]

NextRel ==
    \/ PerformStartupCleanup
    \/ Tick
    \/ CreateRelations(SeqsUpTo(GraphRelationInputs, 1) \ {<<>>}, RelLimits)
    \/ DeleteRelations(SeqsUpTo(GraphRelationInputs, 1) \ {<<>>}, RelLimits)
    \/ UpdateRelations(SeqsUpTo(GraphRelationInputs, 2), RelLimits)

SpecRel == Init /\ [][NextRel]_vars

----------------------------------------------------------------------------
(* SpecAsync: the handlers as the event loop runs them.  A handler awaits   *)
(* its loadGraph and its saveGraph; the handler of another request may run  *)
(* between the two.  Nothing in the code orders the calls.                  *)

AsyncLimits ==
    [entities |-> MaxEntities, relations |-> 0, observations |-> 1,
     version |-> MaxVersion]

\* the synchronous part of a handler, between its two awaits
Apply(op, args, graph, now) ==
    CASE op = "createEntities" -> createEntities(graph, args, now)
      [] op = "deleteEntities" -> deleteEntities(graph, args)
      [] op = "addObservations" ->
            addObservations(graph, args.observations, now, args.rands)

AsyncCalls ==
    {[op |-> "createEntities", args |-> <<EntityIn(n, NoAliases)>>] : n \in Names}
    \cup {[op |-> "deleteEntities", args |-> <<"A">>]}
    \cup {[op |-> "addObservations",
           args |-> [observations |-> <<GroupIn("A", <<CArchived>>)>>,
                     rands |-> <<r>>]] : r \in 0..MaxRand}

\* main(): a server that connects its transport before the cleanup is awaited
Connected_BeforeCleanup == phase \in {"cleaning", "serving"}

\* main(): server.connect runs after the awaited cleanup has returned
Connected == phase = "serving"

\* a request arrives and its handler starts: it awaits loadGraph
Issue ==
    /\ Connected
    /\ Len(procs) < MaxInFlight
    /\ \E c \in AsyncCalls :
         procs' = Append(procs, [op |-> c.op, args |-> c.args, pc |-> "load",
                                 r |-> [graph |-> EmptyGraph, ret |-> <<>>,
                                        save |-> FALSE, threw |-> FALSE]])
    /\ UNCHANGED <<file, clock, phase, last>>

\* the read of the file completes; the handler mutates the loaded graph and
\* awaits saveGraph
LoadDone ==
    \E i \in 1..Len(procs) :
        /\ procs[i].pc = "load"
        /\ LET r == Apply(procs[i].op, procs[i].args, loadGraph(file), clock)
           IN /\ Bounded(r.graph, AsyncLimits)
              /\ procs' = [procs EXCEPT
                              ![i].pc = IF r.save THEN "save" ELSE "done",
                              ![i].r = r]
        /\ UNCHANGED <<file, clock, phase, last>>

\* the write of the file completes and the handler returns
SaveDone ==
    \E i \in 1..Len(procs) :
        /\ procs[i].pc = "save"
        /\ file' = saveGraph(procs[i].r.graph)
        /\ procs' = [procs EXCEPT ![i].pc = "done"]
        /\ last' = [op |-> procs[i].op, args |-> procs[i].args,
                    ret |-> procs[i].r.ret, pre |-> file, at |-> clock,
                    saved |-> TRUE, threw |-> FALSE]
        /\ UNCHANGED <<clock, phase>>

\* the responses of the completed calls have been sent
Settle ==
    /\ procs # <<>>
    /\ \A i \in 1..Len(procs) : procs[i].pc = "done"
    /\ procs' = <<>>
    /\ UNCHANGED <<file, clock, phase, last>>

\* main() awaits performStartupCleanup: its loadGraph completes, the Archived
\* observations are filtered out, and it awaits saveGraph if any was removed
CleanupLoad ==
    /\ phase = "starting"
    /\ procs = <<>>
    /\ LET r == performStartupCleanup(loadGraph(file))
       IN IF r.save
          THEN /\ phase' = "cleaning"
               /\ procs' = <<[op |-> "performStartupCleanup", args |-> <<>>,
                              pc |-> "cleanup", r |-> r]>>
               /\ UNCHANGED last
          ELSE /\ phase' = "serving"
               /\ last' = [op |-> "performStartupCleanup", args |-> <<>>,
                           ret |-> r.ret, pre |-> file, at |-> clock,
                           saved |-> FALSE, threw |-> FALSE]
               /\ UNCHANGED procs
    /\ UNCHANGED <<file, clock>>

\* the cleanup's saveGraph completes and performStartupCleanup returns
CleanupSave ==
    /\ phase = "cleaning"
    /\ procs # <<>>
    /\ procs[1].pc = "cleanup"
    /\ file' = saveGraph(procs[1].r.graph)
    /\ procs' = Tail(procs)
    /\ phase' = "serving"
    /\ last' = [op |-> "performStartupCleanup", args |-> <<>>,
                ret |-> procs[1].r.ret, pre |-> file, at |-> clock,
                saved |-> TRUE, threw |-> FALSE]
    /\ UNCHANGED clock

NextAsync ==
    \/ CleanupLoad
    \/ CleanupSave
    \/ Restart
    \/ Issue
    \/ LoadDone
    \/ SaveDone
    \/ Settle

SpecAsync == Init /\ [][NextAsync]_vars

----------------------------------------------------------------------------
(* Properties *)

\* the stored graph, and the stored graph before the last call
Stored == loadGraph(file)
Pre == loadGraph(last.pre)

EntityNamesOf(graph) == {e.name : e \in Range(graph.entities)}

UniqueNames(entities) ==
    \A i, j \in 1..Len(entities) : i # j => entities[i].name # entities[j].name

UniqueTriples(relations) ==
    \A i, j \in 1..Len(relations) :
        i # j => ~SameTriple(relations[i], relations[j])

\* C1: after any sequence of createEntities, updateEntities and
\* deleteEntities calls no two stored entities have the same name.
C1_UniqueEntityNames == UniqueNames(Stored.entities)

\* C2: after any sequence of relation and entity calls no two stored
\* relations have the same (from, to, relationType) triple.
C2_UniqueRelationTriples == UniqueTriples(Stored.relations)

\* C3: once two calls issued concurrently have both completed, the stored
\* graph contains the effects of both: every entity a completed createEntities
\* returned as created is stored, unless a deleteEntities of that round names it.
C3_NoLostUpdate ==
    (procs # <<>> /\ \A i \in 1..Len(procs) : procs[i].pc = "done")
        => \A i \in 1..Len(procs) :
              procs[i].op = "createEntities"
                => \A e \in Range(procs[i].r.ret) :
                      \/ e.name \in EntityNamesOf(Stored)
                      \/ \E j \in 1..Len(procs) :
                            procs[j].op = "deleteEntities"
                                /\ Includes(procs[j].args, e.name)

ReadOps == {"readGraph", "searchNodes", "openNodes", "getContextInfo"}

\* C4: no read operation (readGraph, searchNodes, openNodes, getContextInfo)
\* returns an observation whose status is Archived.
C4_ReadsReturnNoArchived ==
    last.op \in ReadOps
        => \A o \in Range(last.ret.observations) : o.status # "Archived"

\* C5: after deleteEntities(names) no stored entity has a name in names, no
\* stored relation has from or to in names and no stored observation has
\* entityName in names.
C5_DeleteCascade ==
    last.op = "deleteEntities"
        => \A n \in Range(last.args) :
              /\ \A e \in Range(Stored.entities) : e.name # n
              /\ \A r \in Range(Stored.relations) : r.from # n /\ r.to # n
              /\ \A o \in Range(Stored.observations) : o.entityName # n

\* a deleteEntities call that removed an entity, a relation and an observation
C5_Witness ==
    /\ last.op = "deleteEntities"
    /\ \E n \in Range(last.args) :
          /\ \E e \in Range(Pre.entities) : e.name = n
          /\ \E r \in Range(Pre.relations) : r.to = n /\ r.from # n
          /\ \E o \in Range(Pre.observations) : o.entityName = n
    /\ Stored.entities # <<>>

\* the last call was updateEntities with the single entry "rename A to B",
\* an entity named A was stored and no entity named B was
RenamedBy(A, B) ==
    /\ last.op = "updateEntities"
    /\ Len(last.args) = 1
    /\ last.args[1].name = A
    /\ last.args[1].newName # Undefined
    /\ Trim(last.args[1].newName) = B
    /\ A # B
    /\ A \in EntityNamesOf(Pre)
    /\ B \notin EntityNamesOf(Pre)

\* C6: after updateEntities renames A to B (B differs from A, no other entity
\* is named B) every relation endpoint and observation entityName that was A
\* is B, and no stored entity named A remains.
C6_RenameCascade ==
    \A A \in Names, B \in Names :
        RenamedBy(A, B)
            => /\ Len(Stored.relations) = Len(Pre.relations)
               /\ \A i \in 1..Len(Pre.relations) :
                     /\ Pre.relations[i].from = A => Stored.relations[i].from = B
                     /\ Pre.relations[i].to = A => Stored.relations[i].to = B
               /\ Len(Stored.observations) = Len(Pre.observations)
               /\ \A i \in 1..Len(Pre.observations) :
                     Pre.observations[i].entityName = A
                        => Stored.observations[i].entityName = B
               /\ A \notin EntityNamesOf(Stored)

----------------------------------------------------------------------------
(* The content strings an addObservations call processes, one step each *)

\* the steps of one group: each is [before, entityName, content, after],
\* before and after being the loop state [graph, addedIds, rands]
RECURSIVE ContentSteps(_, _, _, _)
ContentSteps(st, entityName, contents, now) ==
    IF contents = <<>> THEN <<>>
    ELSE LET after == addObservation(st, entityName, Head(contents), now)
         IN <<[before |-> st, entityName |-> entityName,
               content |-> Head(contents), after |-> after]>>
            \o ContentSteps(after, entityName, Tail(contents), now)

\* the steps of all groups whose entity exists
RECURSIVE GroupSteps(_, _, _, _)
GroupSteps(graph, rands, observationsInput, now) ==
    IF observationsInput = <<>> THEN <<>>
    ELSE LET input == Head(observationsInput)
             exists == Some(graph.entities, LAMBDA e : e.name = input.entityName)
             steps == IF exists
                      THEN ContentSteps([graph |-> graph, addedIds |-> <<>>,
                                         rands |-> rands],
                                        input.entityName, input.contents, now)
                      ELSE <<>>
             end == IF steps = <<>> THEN [graph |-> graph, rands |-> rands]
                    ELSE steps[Len(steps)].after
         IN steps \o GroupSteps(end.graph, end.rands, Tail(observationsInput), now)

\* the last call was addObservations and drew the random suffixes rands
AddedWith(rands) ==
    /\ last.op = "addObservations"
    /\ LET r == addObservations(Pre, last.args, last.at, rands)
       IN /\ last.ret = r.ret
          /\ last.saved = r.save
          /\ r.save => file = saveGraph(r.graph)

\* the steps of the last addObservations call
LastSteps(rands) == GroupSteps(Pre, rands, last.args, last.at)

\* the content of the step has a status other than Active and an Active
\* observation of the entity has the same text
TransitionCase(step) ==
    LET parsed == parseObservationContent(step.content)
    IN /\ HasStatus(parsed.status)
       /\ parsed.status \in {"Resolved", "Background", "Archived"}
       /\ \E obs \in Range(step.before.graph.observations) :
             /\ obs.entityName = step.entityName
             /\ obs.status = "Active"
             /\ parseObservationContent(obs.content).text = parsed.text

\* the step updated an Active observation with the same text in place
Transitioned(step) ==
    LET parsed == parseObservationContent(step.content)
        before == step.before.graph.observations
        after == step.after.graph.observations
    IN /\ Len(after) = Len(before)
       /\ \E i \in 1..Len(before) :
             /\ before[i].entityName = step.entityName
             /\ before[i].status = "Active"
             /\ parseObservationContent(before[i].content).text = parsed.text
             /\ after[i].id = before[i].id
             /\ after[i].content = step.content
             /\ after[i].status = parsed.status
             /\ after[i].version = before[i].version + 1
             /\ step.after.addedIds = Append(step.before.addedIds, before[i].id)

\* C7: a content string whose status is Resolved, Background or Archived and
\* whose text equals the text of an Active observation of the same entity
\* creates no observation: that observation keeps its id, the id is returned,
\* its content becomes the new string, its status the new status and its
\* version increases by one.
C7_StatusTransitionMerge ==
    last.op = "addObservations"
        => \E rands \in RandSeqs :
              /\ AddedWith(rands)
              /\ \A k \in 1..Len(LastSteps(rands)) :
                    TransitionCase(LastSteps(rands)[k])
                        => Transitioned(LastSteps(rands)[k])

\* a call that resolved an Active observation: the stored graph holds the
\* same number of observations, one of them now Resolved at version 2
C7_Witness ==
    /\ last.op = "addObservations"
    /\ \E rands \in RandSeqs :
          /\ AddedWith(rands)
          /\ \E k \in 1..Len(LastSteps(rands)) :
                TransitionCase(LastSteps(rands)[k])
    /\ Len(Stored.observations) = Len(Pre.observations)
    /\ \E i \in 1..Len(Stored.observations) :
          /\ Pre.observations[i].status = "Active"
          /\ Stored.observations[i].status = "Resolved"
          /\ Stored.observations[i].version = 2
          /\ last.ret = <<<<Stored.observations[i].id>>>>

\* the step does not take the status-transition path and an observation with
\* the same (entityName, content) exists already
PlainDuplicateCase(step) ==
    /\ ~TransitionCase(step)
    /\ \E obs \in Range(step.before.graph.observations) :
          obs.entityName = step.entityName /\ obs.content = step.content

\* C8: a content string that does not take the status-transition path and
\* whose (entityName, content) an observation already has (in storage or
\* created earlier in the same call) creates no observation and returns no id.
C8_PlainAddNeverDuplicates ==
    last.op = "addObservations"
        => \E rands \in RandSeqs :
              /\ AddedWith(rands)
              /\ \A k \in 1..Len(LastSteps(rands)) :
                    LET step == LastSteps(rands)[k]
                    IN PlainDuplicateCase(step)
                         => /\ step.after.graph.observations
                                = step.before.graph.observations
                            /\ step.after.addedIds = step.before.addedIds

\* a call whose contents list repeats a new content: one observation is
\* created and one id returned
C8_Witness ==
    /\ last.op = "addObservations"
    /\ Len(last.args) = 1
    /\ Len(last.args[1].contents) = 2
    /\ last.args[1].contents[1] = last.args[1].contents[2]
    /\ \E rands \in RandSeqs :
          /\ AddedWith(rands)
          /\ Len(LastSteps(rands)) = 2
          /\ PlainDuplicateCase(LastSteps(rands)[2])
    /\ Len(Stored.observations) = Len(Pre.observations) + 1
    /\ Len(last.ret[1]) = 1

\* C9: createEntities with entities whose names are all stored already returns
\* the empty list and leaves exactly one stored entity of each such name, with
\* version, entityType and aliases unchanged.
C9_CreateExistingIdempotent ==
    (/\ last.op = "createEntities"
     /\ last.args # <<>>
     /\ \A e \in Range(last.args) : e.name \in EntityNamesOf(Pre))
        => /\ last.ret = <<>>
           /\ Stored.entities = Pre.entities
           /\ \A e \in Range(last.args) :
                 Cardinality({i \in 1..Len(Stored.entities) :
                                 Stored.entities[i].name = e.name}) = 1

HasArchived(graph) ==
    \E o \in Range(graph.observations) : o.status = "Archived"

\* C10: after performStartupCleanup the stored graph contains no observation
\* with status Archived, and a cleanup of a graph without Archived
\* observations performs no save: the file is not written.
C10_StartupCleanup ==
    last.op = "performStartupCleanup"
        => /\ ~HasArchived(Stored)
           /\ ~HasArchived(Pre) => (~last.saved /\ file = last.pre)

\* a cleanup that removed an Archived observation and kept another one
C10_Witness ==
    /\ last.op = "performStartupCleanup"
    /\ HasArchived(Pre)
    /\ last.saved
    /\ Stored.observations # <<>>

----------------------------------------------------------------------------
(* Startup order *)

\* a tool request is with the store: its handler has started and its
\* response has not been settled
ToolInFlight ==
    \E i \in 1..Len(procs) : procs[i].op # "performStartupCleanup"

\* the cleanup's load or save is in progress
CleanupInProgress == phase \in {"starting", "cleaning"}

\* one step of a process: the cleanup starts only a process that has not run
\* it, a process becomes serving only by completing the cleanup, and a serving
\* process never goes back to cleaning
StartupStep ==
    /\ phase' = "cleaning" => phase = "starting"
    /\ (phase' = "serving" /\ phase # "serving")
          => last'.op = "performStartupCleanup"
    /\ (phase = "serving" /\ phase' # "serving")
          => (phase' = "starting" /\ procs = <<>> /\ file' = file)
    /\ (phase = "serving" /\ phase' = "serving"
            /\ last'.op = "performStartupCleanup")
          => (last.op = "performStartupCleanup" /\ file' = file)

\* C11: the archival pass runs once per process and completes, its save
\* included, before any command is handled: no tool request is with the store
\* while the cleanup's load or save is in progress, and a serving process
\* never runs the cleanup again.
C11_CleanupBeforeCommands ==
    /\ [](CleanupInProgress => ~ToolInFlight)
    /\ [][StartupStep]_vars

\* the cleanup saved a cleaned graph and a tool request was dispatched after it
C11_Witness ==
    /\ phase = "serving"
    /\ last.op = "performStartupCleanup"
    /\ last.saved
    /\ ToolInFlight

----------------------------------------------------------------------------
(* updateRelations *)

\* the input relation names a stored relation of graph by its triple
TripleStored(graph, u) ==
    \E r \in Range(graph.relations) : SameTriple(r, u)

\* C12: updateRelations is all-or-nothing: when the triple of any input
\* relation matches no stored relation the call fails with an error, nothing
\* is saved, and every stored relation keeps its version and createdAt.
C12_UpdateRelationsAllOrNothing ==
    (/\ last.op = "updateRelations"
     /\ \E i \in 1..Len(last.args) : ~TripleStored(Pre, last.args[i]))
        => /\ last.threw
           /\ ~last.saved
           /\ file = last.pre
           /\ Stored.relations = Pre.relations

\* a failed batch one of whose inputs names a stored relation created earlier
C12_Witness ==
    /\ last.op = "updateRelations"
    /\ last.threw
    /\ \E i \in 1..Len(last.args) :
          \E r \in Range(Pre.relations) :
              SameTriple(r, last.args[i]) /\ r.createdAt < last.at
    /\ \E i \in 1..Len(last.args) : ~TripleStored(Pre, last.args[i])

----------------------------------------------------------------------------
(* updateEntities, entry by entry *)

\* the entries of a batch with the loop state each one found and left
RECURSIVE UpdateSteps(_, _, _)
UpdateSteps(st, entitiesToUpdate, now) ==
    IF entitiesToUpdate = <<>> THEN <<>>
    ELSE LET after == updateEntity(st, Head(entitiesToUpdate), now)
         IN <<[entry |-> Head(entitiesToUpdate), before |-> st, after |-> after]>>
            \o UpdateSteps(after, Tail(entitiesToUpdate), now)

\* the entries of the last call, which was an updateEntities
LastUpdateSteps ==
    UpdateSteps([graph |-> Pre, updated |-> <<>>, warnings |-> <<>>,
                 modified |-> FALSE],
                last.args, last.at)

\* the last call was an updateEntities and the steps above are its steps
UpdatedLast ==
    /\ last.op = "updateEntities"
    /\ LET r == updateEntities(Pre, last.args, last.at)
       IN /\ last.ret = r.ret
          /\ last.saved = r.save
          /\ r.save => Stored = loadGraph(saveGraph(r.graph))

\* the entry names an entity of the graph it finds, and another entity of
\* that graph has the name newName
Collides(step, newName) ==
    LET entities == step.before.graph.entities
        index == FindIndex(entities, LAMBDA e : e.name = step.entry.name)
    IN /\ index # 0
       /\ newName # step.entry.name
       /\ \E j \in 1..Len(entities) : j # index /\ entities[j].name = newName

\* the entry was skipped with a warning: no entity, relation or observation
\* changed and nothing was added to updatedEntities
SkippedWithWarning(step) ==
    /\ step.after.graph = step.before.graph
    /\ step.after.updated = step.before.updated
    /\ step.after.modified = step.before.modified
    /\ Len(step.after.warnings) = Len(step.before.warnings) + 1

\* C13 as stated: an entry whose newName differs from its name and is the name
\* of another entity is skipped entirely, with a warning.
C13_RenameCollisionSkipped ==
    last.op = "updateEntities"
        => /\ UpdatedLast
           /\ \A k \in 1..Len(LastUpdateSteps) :
                 LET step == LastUpdateSteps[k]
                 IN (step.entry.newName # Undefined
                        /\ Collides(step, step.entry.newName))
                       => SkippedWithWarning(step)

\* C13 amended: the collision is judged on the trimmed newName: an entry whose
\* trimmed newName is not empty, differs from its name and is the name of
\* another entity is skipped entirely, with a warning.
C13_TrimmedRenameCollisionSkipped ==
    last.op = "updateEntities"
        => /\ UpdatedLast
           /\ \A k \in 1..Len(LastUpdateSteps) :
                 LET step == LastUpdateSteps[k]
                 IN (step.entry.newName # Undefined
                        /\ Truthy(Trim(step.entry.newName))
                        /\ Collides(step, Trim(step.entry.newName)))
                       => SkippedWithWarning(step)

\* a rename to a padded name was skipped because the trimmed name is taken,
\* in a call that applied another entry
C13_Witness ==
    /\ UpdatedLast
    /\ last.saved
    /\ \E k \in 1..Len(LastUpdateSteps) :
          LET step == LastUpdateSteps[k]
          IN /\ step.entry.newName = " B "
             /\ Collides(step, "B")
             /\ SkippedWithWarning(step)

\* the entry names no entity of the graph it finds
MissingStep(step) ==
    step.entry.name \notin EntityNamesOf(step.before.graph)

\* the entries of the steps that found their entity, in order
RECURSIVE FoundEntries(_)
FoundEntries(steps) ==
    IF steps = <<>> THEN <<>>
    ELSE (IF MissingStep(Head(steps)) THEN <<>> ELSE <<Head(steps).entry>>)
         \o FoundEntries(Tail(steps))

\* C14: updateEntities is best-effort: an entry whose name matches no entity
\* adds a warning and is skipped without an error, and the other entries of
\* the batch, before and after it, are applied and saved as if it were not
\* there; the call returns the updated entities and the warnings.
C14_UpdateEntitiesBestEffort ==
    (/\ last.op = "updateEntities"
     /\ \E k \in 1..Len(LastUpdateSteps) : MissingStep(LastUpdateSteps[k]))
        => /\ UpdatedLast
           /\ ~last.threw
           /\ \A k \in 1..Len(LastUpdateSteps) :
                 MissingStep(LastUpdateSteps[k])
                     => SkippedWithWarning(LastUpdateSteps[k])
           /\ LET others == FoundEntries(LastUpdateSteps)
                  r == updateEntities(Pre, others, last.at)
              IN /\ last.ret.updatedEntities = r.ret.updatedEntities
                 /\ Len(last.ret.warnings) =
                       Len(r.ret.warnings) + Len(last.args) - Len(others)
                 /\ last.saved = r.save
                 /\ r.save => Stored = loadGraph(saveGraph(r.graph))
                 /\ ~r.save => file = last.pre

\* a batch whose first entry names no entity and whose second entry was
\* applied and saved
C14_Witness ==
    /\ UpdatedLast
    /\ Len(last.args) = 2
    /\ MissingStep(LastUpdateSteps[1])
    /\ ~MissingStep(LastUpdateSteps[2])
    /\ Len(last.ret.updatedEntities) = 1
    /\ Len(last.ret.warnings) = 1
    /\ last.saved
    /\ Stored # Pre

----------------------------------------------------------------------------
(* addObservations, group by group *)

\* the group names no stored entity
MissingGroup(input) == input.entityName \notin EntityNamesOf(Pre)

\* the elements of results at the positions of the groups whose entity exists
RECURSIVE ResultsOfFound(_, _)
ResultsOfFound(observationsInput, results) ==
    IF observationsInput = <<>> \/ results = <<>> THEN <<>>
    ELSE (IF MissingGroup(Head(observationsInput)) THEN <<>>
          ELSE <<Head(results)>>)
         \o ResultsOfFound(Tail(observationsInput), Tail(results))

ObservationsOf(graph, entityName) ==
    SelectSeq(graph.observations, LAMBDA o : o.entityName = entityName)

RenamedStep(step) ==
    LET entities == step.before.graph.entities
        index == FindIndex(entities, LAMBDA e : e.name = step.entry.name)
    IN /\ index # 0
       /\ step.after.modified
       /\ Len(step.after.updated) = Len(step.before.updated) + 1
       /\ step.after.graph.entities[index].name # step.entry.name

\* the version of every relation and observation that referenced oldName is
\* one higher, and the other relations and observations are as they were
CascadeBumpsOnce(before, after, oldName) ==
    /\ Len(after.relations) = Len(before.relations)
    /\ \A i \in 1..Len(before.relations) :
          IF before.relations[i].from = oldName \/ before.relations[i].to = oldName
          THEN after.relations[i].version = before.relations[i].version + 1
          ELSE after.relations[i] = before.relations[i]
    /\ Len(after.observations) = Len(before.observations)
    /\ \A i \in 1..Len(before.observations) :
          IF before.observations[i].entityName = oldName
          THEN after.observations[i].version = before.observations[i].version + 1
          ELSE after.observations[i] = before.observations[i]

\* C16: the cascade of a successful rename raises by exactly one the version
\* of each relation and observation that referenced the old name, a relation
\* whose from and to both were the old name included, and leaves the version
\* of every other relation and observation as it was.
C16_CascadeBumpsOnce ==
    last.op = "updateEntities"
        => /\ UpdatedLast
           /\ \A k \in 1..Len(LastUpdateSteps) :
                 LET step == LastUpdateSteps[k]
                 IN RenamedStep(step)
                       => CascadeBumpsOnce(step.before.graph, step.after.graph,
                                           step.entry.name)

\* a saved rename of one entry that rewrote a relation whose two ends were the
\* old name and an observation of it, next to a relation of other entities
C16_Witness ==
    /\ UpdatedLast
    /\ last.saved
    /\ Len(last.args) = 1
    /\ RenamedStep(LastUpdateSteps[1])
    /\ \E i \in 1..Len(Pre.relations) :
          /\ Pre.relations[i].from = last.args[1].name
          /\ Pre.relations[i].to = last.args[1].name
          /\ Stored.relations[i].version = Pre.relations[i].version + 1
    /\ \E i \in 1..Len(Pre.relations) :
          /\ Pre.relations[i].from # last.args[1].name
          /\ Pre.relations[i].to # last.args[1].name
          /\ Stored.relations[i] = Pre.relations[i]
    /\ \E i \in 1..Len(Pre.observations) :
          /\ Pre.observations[i].entityName = last.args[1].name
          /\ Stored.observations[i].version = Pre.observations[i].version + 1

----------------------------------------------------------------------------
(* Versions *)

\* the number of entries of relations with the triple of r
TripleCount(relations, r) ==
    Cardinality({i \in 1..Len(relations) : SameTriple(relations[i], r)})

\* the entry was applied to the entity it found
AppliedStep(step) ==
    /\ ~MissingStep(step)
    /\ Len(step.after.updated) = Len(step.before.updated) + 1

\* C17: each update entry that updateEntities or updateRelations applies to a
\* stored record raises the record's version by one, so k entries for the same
\* record, in one batch, raise its stored version by k.
C17_VersionCountsUpdates ==
    /\ last.op = "updateEntities"
          => /\ UpdatedLast
             /\ \A k \in 1..Len(LastUpdateSteps) :
                   LET step == LastUpdateSteps[k]
                       index == FindIndex(step.before.graph.entities,
                                          LAMBDA e : e.name = step.entry.name)
                   IN AppliedStep(step)
                         => step.after.graph.entities[index].version =
                               step.before.graph.entities[index].version + 1
    /\ (last.op = "updateRelations" /\ ~last.threw)
          => /\ Len(Stored.relations) = Len(Pre.relations)
             /\ \A i \in 1..Len(Pre.relations) :
                   (i = FindIndex(Pre.relations,
                                  LAMBDA r : SameTriple(r, Pre.relations[i])))
                      => Stored.relations[i].version =
                            Pre.relations[i].version
                               + TripleCount(last.args, Pre.relations[i])

----------------------------------------------------------------------------
(* Content parsing *)

\* the content begins with a bracketed token that is not a date
BadDateContent(content) ==
    /\ content # <<>>
    /\ Head(content).k = "br"
    /\ DateParse(Head(content).body) = NaN

\* the status a well-formed [S:<status>] tag in second place names
TagStatus(content) ==
    IF Len(content) >= 2 /\ content[2].k = "br"
    THEN CASE content[2].body = "S:Active" -> "Active"
           [] content[2].body = "S:Resolved" -> "Resolved"
           [] content[2].body = "S:Background" -> "Background"
           [] content[2].body = "S:Archived" -> "Archived"
           [] OTHER -> "null"
    ELSE "null"

\* the step created an observation
CreatedStep(step) ==
    Len(step.after.graph.observations) = Len(step.before.graph.observations) + 1

\* the step rewrote an observation in place
RewroteStep(step) ==
    /\ Len(step.after.graph.observations) = Len(step.before.graph.observations)
    /\ step.after.graph.observations # step.before.graph.observations

\* C18 as stated: content whose leading bracketed token is not a valid date is
\* plain text with no timestamp and no status, even when an [S:<status>] tag
\* follows: it never takes the status-transition path and the observation
\* stored for it has no status.
C18_BadDateIsPlainText ==
    last.op = "addObservations"
        => \E rands \in RandSeqs :
              /\ AddedWith(rands)
              /\ \A k \in 1..Len(LastSteps(rands)) :
                    LET step == LastSteps(rands)[k]
                        parsed == parseObservationContent(step.content)
                        after == step.after.graph.observations
                    IN BadDateContent(step.content)
                          => /\ parsed.timestamp = Undefined
                             /\ ~HasStatus(parsed.status)
                             /\ ~RewroteStep(step)
                             /\ CreatedStep(step)
                                   => ~HasStatus(after[Len(after)].status)

\* C18 amended: content whose leading bracketed token is not a valid date has
\* no timestamp but keeps the status of the [S:<status>] tag that follows it:
\* with a status other than Active it takes the status-transition path when an
\* Active observation has its text, and an observation created for it stores
\* that status and no timestamp.
C18_BadDateKeepsStatus ==
    last.op = "addObservations"
        => \E rands \in RandSeqs :
              /\ AddedWith(rands)
              /\ \A k \in 1..Len(LastSteps(rands)) :
                    LET step == LastSteps(rands)[k]
                        parsed == parseObservationContent(step.content)
                        after == step.after.graph.observations
                    IN BadDateContent(step.content)
                          => /\ parsed.timestamp = Undefined
                             /\ parsed.status = TagStatus(step.content)
                             /\ TransitionCase(step) => Transitioned(step)
                             /\ CreatedStep(step)
                                   => /\ after[Len(after)].status
                                            = TagStatus(step.content)
                                      /\ after[Len(after)].timestamp = Undefined

\* a content with a leading bracket that is no date and the tag S:Resolved
\* resolved a stored Active observation with its text
C18_Witness ==
    /\ last.op = "addObservations"
    /\ last.args = <<GroupIn("A", <<CBadResolved>>)>>
    /\ last.saved
    /\ Len(Stored.observations) = Len(Pre.observations)
    /\ \E i \in 1..Len(Stored.observations) :
          /\ Pre.observations[i].status = "Active"
          /\ Stored.observations[i].status = "Resolved"
          /\ Stored.observations[i].content = CBadResolved
          /\ Stored.observations[i].version = Pre.observations[i].version + 1

----------------------------------------------------------------------------
(* getContextInfo *)

\* the name an input name stands for: the input itself when an entity has that
\* exact name, else the name of the first entity that lists it as an alias
Canonical(graph, inputName) ==
    LET owners == {i \in 1..Len(graph.entities) :
                      /\ graph.entities[i].aliases # NoAliases
                      /\ Includes(graph.entities[i].aliases, inputName)}
    IN IF inputName \in EntityNamesOf(graph) THEN {inputName}
       ELSE IF owners # {}
       THEN {graph.entities[CHOOSE i \in owners : \A j \in owners : i <= j].name}
       ELSE {}

ResolvedNames(graph, inputNames) ==
    UNION {Canonical(graph, inputNames[i]) : i \in 1..Len(inputNames)}

\* the resolved names and the ends of the relations that touch one of them
Neighborhood(graph, resolved) ==
    resolved
        \cup {r.from : r \in {x \in Range(graph.relations) :
                                 x.from \in resolved \/ x.to \in resolved}}
        \cup {r.to : r \in {x \in Range(graph.relations) :
                               x.from \in resolved \/ x.to \in resolved}}

\* C19: getContextInfo resolves each input name by exact entity name first
\* and by alias only if no entity has that exact name; an input that matches
\* neither is dropped without an error; if no input resolves the result is the
\* empty graph.
C19_ResolveExactThenAlias ==
    last.op = "getContextInfo"
        => LET resolved == ResolvedNames(Pre, last.args)
           IN /\ ~last.threw
              /\ resolved = {} => last.ret = EmptyGraph
              /\ resolved # {}
                    => /\ resolved \subseteq EntityNamesOf(last.ret)
                       /\ EntityNamesOf(last.ret)
                             \subseteq Neighborhood(Pre, resolved)

\* the input "B" names an entity and is an alias of another entity that no
\* relation joins to it: only the entity named B is returned
C19_Witness ==
    /\ last.op = "getContextInfo"
    /\ last.args = <<"D", "B">>
    /\ \E e \in Range(Pre.entities) :
          e.name = "A" /\ e.aliases # NoAliases /\ Includes(e.aliases, "B")
    /\ "B" \in EntityNamesOf(Pre)
    /\ EntityNamesOf(last.ret) = {"B"}

\* the graph of the example: entities A and B, the relation from A to B and
\* one Active observation of A with a timestamp
ExampleGraph(graph) ==
    /\ Len(graph.entities) = 2
    /\ EntityNamesOf(graph) = {"A", "B"}
    /\ Len(graph.relations) = 1
    /\ graph.relations[1].from = "A"
    /\ graph.relations[1].to = "B"
    /\ Len(graph.observations) = 1
    /\ graph.observations[1].entityName = "A"
    /\ graph.observations[1].content = CActive

\* C20: getContextInfo returns the one-hop neighbourhood: every returned
\* relation has from or to among the resolved names, and the returned entities
\* are exactly the stored entities whose name is a resolved name or an end of
\* a relation that directly involves a resolved name.  On the example graph
\* getContextInfo(<<"A">>) returns both entities, the relation and the
\* observation with its parsed status and timestamp.
C20_OneHopNeighborhood ==
    last.op = "getContextInfo"
        => LET resolved == ResolvedNames(Pre, last.args)
           IN /\ \A r \in Range(last.ret.relations) :
                    /\ r.from \in resolved \/ r.to \in resolved
                    /\ r \in Range(Pre.relations)
              /\ resolved # {}
                    => last.ret.entities =
                          SelectSeq(Pre.entities,
                                    LAMBDA e : e.name \in Neighborhood(Pre, resolved))
              /\ (ExampleGraph(Pre) /\ last.args = <<"A">>)
                    => /\ last.ret.entities = Pre.entities
                       /\ last.ret.relations = Pre.relations
                       /\ last.ret.observations = Pre.observations
                       /\ last.ret.observations[1].status = "Active"
                       /\ last.ret.observations[1].timestamp = TS2024

\* the example, next to an entity C that the query for A does not reach:
\* A and B are returned with the relation between them, C and the relation
\* from B to C are not
C20_Witness ==
    /\ last.op = "getContextInfo"
    /\ last.args = <<"A">>
    /\ EntityNamesOf(Pre) = {"A", "B", "C"}
    /\ Len(Pre.relations) = 2
    /\ \E r \in Range(Pre.relations) : r.from = "B" /\ r.to = "C"
    /\ EntityNamesOf(last.ret) = {"A", "B"}
    /\ Len(last.ret.relations) = 1
    /\ last.ret.relations[1].from = "A"
    /\ last.ret.relations[1].to = "B"
    /\ Len(last.ret.observations) = 1
    /\ last.ret.observations[1].status = "Active"

----------------------------------------------------------------------------
(* getContextInfo: limits and ranking *)

\* the relations of graph that touch a resolved name
TouchingRelations(graph, resolved) ==
    SelectSeq(graph.relations,
              LAMBDA r : r.from \in resolved \/ r.to \in resolved)

\* the observations of graph that belong to the neighbourhood
EligibleObservations(graph, resolved) ==
    SelectSeq(graph.observations,
              LAMBDA o : o.entityName \in Neighborhood(graph, resolved))

\* C21: for every stored graph and every input list getContextInfo returns at
\* most 50 relations and at most 25 observations, 25 in total and not for
\* each entity.
C21_ContextLimits ==
    last.op = "getContextInfo"
        => /\ Len(last.ret.relations) <= 50
           /\ Len(last.ret.observations) <= 25

\* a context cut on both sides: 52 relations touch the input and 27
\* observations of two entities are eligible, no entity having more than 25
C21_Witness ==
    /\ last.op = "getContextInfo"
    /\ LET resolved == ResolvedNames(Pre, last.args)
       IN /\ Len(TouchingRelations(Pre, resolved)) = 52
          /\ Len(EligibleObservations(Pre, resolved)) = 27
          /\ \A n \in Names : Len(ObservationsOf(Pre, n)) <= 25
    /\ Len(last.ret.relations) = 50
    /\ Len(last.ret.observations) = 25

\* the observation has a timestamp that is a date
ValidTimestamp(o) ==
    o.timestamp # Undefined /\ DateParse(o.timestamp) # NaN

\* a ranks strictly before b: a timestamp before none, the later timestamp
\* first, and the later createdAt first when the timestamps do not decide
RanksBefore(a, b) ==
    \/ ValidTimestamp(a) /\ ~ValidTimestamp(b)
    \/ /\ ValidTimestamp(a) /\ ValidTimestamp(b)
       /\ DateParse(a.timestamp) > DateParse(b.timestamp)
    \/ /\ \/ ~ValidTimestamp(a) /\ ~ValidTimestamp(b)
          \/ /\ ValidTimestamp(a) /\ ValidTimestamp(b)
             /\ DateParse(a.timestamp) = DateParse(b.timestamp)
       /\ a.createdAt > b.createdAt

C23_RelationRanking ==
    last.op = "getContextInfo"
        => LET resolved == ResolvedNames(Pre, last.args)
               touching == TouchingRelations(Pre, resolved)
               returned == last.ret.relations
           IN /\ Range(returned) \subseteq Range(touching)
              /\ Len(returned) = IF Len(touching) < 50 THEN Len(touching) ELSE 50
              /\ \A i, j \in 1..Len(returned) :
                    i < j => returned[i].createdAt >= returned[j].createdAt
              /\ \A o \in Range(touching) \ Range(returned) :
                    \A r \in Range(returned) : o.createdAt <= r.createdAt

\* 52 relations touch the input, the oldest stored first: the 50 returned are
\* the later ones and the oldest is left out
C23_Witness ==
    /\ last.op = "getContextInfo"
    /\ LET touching == TouchingRelations(Pre, ResolvedNames(Pre, last.args))
       IN /\ Len(touching) = 52
          /\ touching[1].createdAt = 0
          /\ touching[1] \notin Range(last.ret.relations)
    /\ Len(last.ret.relations) = 50
    /\ \A r \in Range(last.ret.relations) : r.createdAt = 1

\* C24: in the observations returned by getContextInfo no observation with a
\* status other than Active precedes an Active one, and an Active observation
\* is never cut off while a non-Active one is returned.
C24_ActiveFirst ==
    last.op = "getContextInfo"
        => LET returned == last.ret.observations
               eligible == EligibleObservations(Pre, ResolvedNames(Pre, last.args))
           IN /\ \A i, j \in 1..Len(returned) :
                    (i < j /\ returned[j].status = "Active")
                        => returned[i].status = "Active"
              /\ \A o \in Range(eligible) \ Range(returned) :
                    o.status = "Active"
                        => \A r \in Range(returned) : r.status = "Active"

----------------------------------------------------------------------------
(* searchNodes and openNodes *)

\* some query is a substring of the string, letter case set aside
QueryHits(cs, queries) ==
    \E q \in Range(queries) :
        StrIncludes(ToLowerCase(cs), ToLowerCase(Chars(q)))

\* the entity matches by its name, its type or one of its aliases
DirectMatch(e, queries) ==
    \/ QueryHits(Chars(e.name), queries)
    \/ QueryHits(Chars(e.entityType), queries)
    \/ \E alias \in Range(e.aliases) : QueryHits(Chars(alias), queries)

\* the entity owns an observation whose content matches
ObservationMatch(graph, e, queries) ==
    \E o \in Range(graph.observations) :
        o.entityName = e.name /\ QueryHits(ContentChars(o.content), queries)

\* the restriction of a graph to the entities of a set of names
Restricted(graph, names) ==
    [entities |-> SelectSeq(graph.entities, LAMBDA e : e.name \in names),
     relations |-> SelectSeq(graph.relations,
                     LAMBDA r : r.from \in names /\ r.to \in names),
     observations |-> SelectSeq(graph.observations,
                     LAMBDA o : o.entityName \in names)]

\* C25: searchNodes returns exactly the stored entities that match a query by
\* name, type or alias or own an observation whose content matches, the
\* relations with both ends among them and all the observations of them.
C25_SearchResult ==
    last.op = "searchNodes"
        => LET matched == SelectSeq(Pre.entities,
                            LAMBDA e : \/ DirectMatch(e, last.args)
                                       \/ ObservationMatch(Pre, e, last.args))
               names == {e.name : e \in Range(matched)}
           IN /\ last.ret.entities = matched
              /\ last.ret.relations = Restricted(Pre, names).relations
              /\ last.ret.observations = Restricted(Pre, names).observations

\* the same over stores whose entity names are unique
C25_SearchResultUniqueNames ==
    UniqueNames(Pre.entities) => C25_SearchResult

----------------------------------------------------------------------------
(* deleteObservations and deleteRelations *)

\* some group names the observation's entity and lists its exact content
TargetedObservation(o, deletions) ==
    \E d \in Range(deletions) :
        d.entityName = o.entityName /\ o.content \in Range(d.observations)

\* some input has the relation's whole triple
TargetedRelation(r, relations) ==
    \E del \in Range(relations) :
        /\ del.from = r.from
        /\ del.to = r.to
        /\ del.relationType = r.relationType

\* C27: deleteObservations removes exactly the observations some group names
\* by entityName and exact content, deleteRelations exactly the relations
\* whose whole triple some input has; everything else stays as it was and an
\* input matching nothing is no error.
C27_DeletesExactlyTargets ==
    /\ last.op = "deleteObservations"
          => /\ ~last.threw
             /\ Stored.entities = Pre.entities
             /\ Stored.relations = Pre.relations
             /\ Stored.observations =
                   SelectSeq(Pre.observations,
                             LAMBDA o : ~TargetedObservation(o, last.args))
    /\ last.op = "deleteRelations"
          => /\ ~last.threw
             /\ Stored.entities = Pre.entities
             /\ Stored.observations = Pre.observations
             /\ Stored.relations =
                   SelectSeq(Pre.relations,
                             LAMBDA r : ~TargetedRelation(r, last.args))

\* a deletion that removes one of two relations between the same entities
C27_WitnessRelation ==
    /\ last.op = "deleteRelations"
    /\ Len(Stored.relations) < Len(Pre.relations)
    /\ \E r \in Range(Stored.relations), d \in Range(last.args) :
          r.from = d.from /\ r.to = d.to /\ r.relationType # d.relationType

\* a deletion that removes an observation and keeps one with the same content
\* of another entity, while relations are stored
C27_Witness ==
    /\ last.op = "deleteObservations"
    /\ Len(Stored.observations) < Len(Pre.observations)
    /\ \E o \in Range(Stored.observations), d \in Range(last.args) :
          o.content \in Range(d.observations) /\ o.entityName # d.entityName
    /\ Pre.relations # <<>>

----------------------------------------------------------------------------
(* Persistence round trip *)

\* the graph the last call handed to saveGraph, the addObservations ids
\* drawn with the random suffixes rands
SavedGraph(rands) ==
    CASE last.op = "createEntities" -> createEntities(Pre, last.args, last.at).graph
      [] last.op = "createRelations" -> createRelations(Pre, last.args, last.at).graph
      [] last.op = "addObservations" ->
            addObservations(Pre, last.args, last.at, rands).graph
      [] last.op = "updateEntities" -> updateEntities(Pre, last.args, last.at).graph
      [] last.op = "updateRelations" -> updateRelations(Pre, last.args, last.at).graph
      [] last.op = "deleteRelations" -> deleteRelations(Pre, last.args).graph
      [] last.op = "deleteEntities" -> deleteEntities(Pre, last.args).graph
      [] last.op = "deleteObservations" -> deleteObservations(Pre, last.args).graph
      [] last.op = "performStartupCleanup" -> performStartupCleanup(Pre).graph
      [] OTHER -> Pre

\* the structurally valid records of a graph
ValidPart(graph) ==
    [entities |-> SelectSeq(graph.entities,
                    LAMBDA e : e.name # "" /\ e.entityType # ""),
     relations |-> SelectSeq(graph.relations,
                    LAMBDA r : r.from # "" /\ r.to # "" /\ r.relationType # ""),
     observations |-> SelectSeq(graph.observations,
                    LAMBDA o : o.entityName # "")]

\* the kinds of the lines of a file, in order
KindRank(line) ==
    CASE line.json.type = "entity" -> 1
      [] line.json.type = "relation" -> 2
      [] OTHER -> 3

\* the round trip of one graph
RoundTrip(G) ==
    /\ saveGraph(loadGraph(saveGraph(G))) = saveGraph(G)
    /\ loadGraph(saveGraph(G)) = ValidPart(G)
    /\ LET lines == saveGraph(G).lines
       IN /\ \A i, j \in 1..Len(lines) :
                i < j => KindRank(lines[i]) <= KindRank(lines[j])
          /\ Len(lines) = Len(ValidPart(G).entities) + Len(ValidPart(G).relations)
                            + Len(ValidPart(G).observations)

\* C28: saving a graph, loading the result and saving again gives the file of
\* the first save, entities first, then relations, then observations, each in
\* insertion order; the load of a saved graph is the graph restricted to its
\* structurally valid records.
C28_RoundTrip ==
    last.saved
        => \E rands \in PersistRands :
              /\ file = saveGraph(SavedGraph(rands))
              /\ RoundTrip(SavedGraph(rands))

\* a save of a graph with all three kinds of record, an observation without
\* timestamp and status, and a structurally invalid record that is dropped
C28_Witness ==
    /\ last.saved
    /\ \E rands \in PersistRands :
          LET G == SavedGraph(rands)
          IN /\ file = saveGraph(G)
             /\ ValidPart(G) # G
             /\ ValidPart(G).entities # <<>>
             /\ ValidPart(G).relations # <<>>
             /\ \E o \in Range(G.observations) :
                   o.timestamp = Undefined /\ o.status = Undefined

----------------------------------------------------------------------------
(* Loading *)

\* the records of the lines of one type that are JSON text and carry the
\* fields of the type, in the order of the file
LinesOf(f, Good(_)) ==
    LET picked == SelectSeq(f.lines, LAMBDA l : Parses(l) /\ Good(l.json))
    IN [i \in 1..Len(picked) |-> JSONParse(picked[i])]

EntityLine(item) ==
    item.type = "entity" /\ item.name # "" /\ item.entityType # ""

RelationLine(item) ==
    item.type = "relation" /\ item.from # "" /\ item.to # ""
        /\ item.relationType # ""

ObservationLine(item) ==
    item.type = "observation" /\ item.entityName # ""

C29_WitnessRejected ==
    last.op = "readGraph" /\ last.threw /\ last.ret = "EACCES"

\* readGraph without a file returns the empty graph
C29_WitnessMissing ==
    last.op = "readGraph" /\ ~last.pre.exists /\ last.ret = EmptyGraph

----------------------------------------------------------------------------
(* Failing saves *)

\* C30: after a call, whether it returned, threw before its save, or its save
\* failed or was cut short, the file holds the whole graph of before the call
\* or the whole graph the call saves, and no line of it is cut.
C30_NoPartialPersist ==
    last.op # "none"
        => /\ \A i \in 1..Len(file.lines) : Parses(file.lines[i])
           /\ \/ Stored = Pre
              \/ Stored = loadGraph(saveGraph(SavedGraph(<<>>)))

\* the part of the claim about calls that throw before they save: the file
\* is as before
C30_ThrowBeforeSaveKeepsFile ==
    (last.threw /\ last.ret # "writeError") => file = last.pre

\* a failed save that lost the prior graph: entities were stored before the
\* call and none is stored after it
C30_PriorGraphLost ==
    /\ last.op = "createEntities"
    /\ last.threw
    /\ Pre.entities # <<>>
    /\ Stored = EmptyGraph

----------------------------------------------------------------------------
(* Observation ids *)

\* C31: no two stored observations share an id, whatever addObservations
\* calls were made and however many contents one call added.
C31_UniqueObservationIds ==
    \A i, j \in 1..Len(Stored.observations) :
        i # j => Stored.observations[i].id # Stored.observations[j].id

----------------------------------------------------------------------------
(* Loads and saves of the mutating calls *)

Mutating ==
    {"createEntities", "createRelations", "addObservations", "deleteEntities",
     "deleteObservations", "deleteRelations", "updateEntities",
     "updateRelations"}

\* the last call was a mutating one and returned
MutationReturned == last.op \in Mutating /\ ~last.threw

\* C32 as stated: every mutating call that returns has saved the file, also
\* when it changed nothing.
C32_MutationsAlwaysSave == MutationReturned => last.saved

\* the calls that save only when they have something to save
SavesWhenChanged ==
    CASE last.op = "addObservations" ->
            \E i \in 1..Len(last.ret) : last.ret[i] # <<>>
      [] last.op = "deleteObservations" ->
            \E o \in Range(Pre.observations) : TargetedObservation(o, last.args)
      [] last.op = "updateEntities" -> last.ret.updatedEntities # <<>>
      [] OTHER -> TRUE

\* C32, amended: a mutating call that returns worked on the whole loaded
\* file; createEntities, createRelations, deleteEntities, deleteRelations and
\* updateRelations end with a save of the whole graph; addObservations saves
\* exactly when a group reports an id, deleteObservations exactly when it
\* removed an observation, updateEntities exactly when it applied an entry;
\* a call that does not save leaves the file as it was.
C32_MutationsLoadAndSaveWhenChanged ==
    MutationReturned
        => /\ last.saved <=> SavesWhenChanged
           /\ last.saved =>
                 \E rands \in {<<0>>, <<1>>} : file = saveGraph(SavedGraph(rands))
           /\ ~last.saved => file = last.pre

\* an updateEntities call on a stored graph whose entries are all skipped:
\* it returns without a save
C32_Witness ==
    /\ last.op = "updateEntities"
    /\ last.args # <<>>
    /\ ~last.threw
    /\ ~last.saved
    /\ last.ret.updatedEntities = <<>>
    /\ Pre.entities # <<>>

\* the content begins with an [S:<status>] tag and carries no timestamp tag
StatusOnlyContent(content) ==
    /\ content # <<>>
    /\ Head(content).k = "br"
    /\ StatusStr(Head(content).body) # Undefined
    /\ \A i \in 2..Len(content) : content[i].k # "br"

\* the status the leading tag names
LeadingStatus(content) ==
    CASE StatusStr(Head(content).body) = "ACTIVE" -> "Active"
      [] StatusStr(Head(content).body) = "RESOLVED" -> "Resolved"
      [] StatusStr(Head(content).body) = "BACKGROUND" -> "Background"
      [] StatusStr(Head(content).body) = "ARCHIVED" -> "Archived"
      [] OTHER -> "null"

\* C33: content that begins with an [S:<status>] tag and has no timestamp tag
\* is parsed to that status: an observation created for it stores the status,
\* and with a status other than Active it takes the status-transition path
\* when an Active observation of the entity has its text.
C33_StatusOnlyTag ==
    last.op = "addObservations"
        => \E rands \in RandSeqs :
              /\ AddedWith(rands)
              /\ \A k \in 1..Len(LastSteps(rands)) :
                    LET step == LastSteps(rands)[k]
                        after == step.after.graph.observations
                    IN StatusOnlyContent(step.content)
                          => /\ parseObservationContent(step.content).status
                                   = LeadingStatus(step.content)
                             /\ CreatedStep(step)
                                   => after[Len(after)].status
                                         = LeadingStatus(step.content)

----------------------------------------------------------------------------
(* Observations of one entity *)

\* C34: no two stored observations have the same entityName and the same
\* content, the status-transition path included.
C34_UniqueEntityContent ==
    \A i, j \in 1..Len(Stored.observations) :
        i # j => \/ Stored.observations[i].entityName # Stored.observations[j].entityName
                 \/ Stored.observations[i].content # Stored.observations[j].content

Final == {"Resolved", "Background", "Archived"}

\* the observations at the places where two lists of one length differ
Changed(before, after) == {i \in 1..Len(before) : before[i] # after[i]}

\* C35: status transitions are one-way.  An observation whose status is
\* Resolved, Background or Archived keeps its status and its content through
\* every later call (a rename rewrites its entityName only, a delete removes
\* it); addObservations changes Active observations only, and each content
\* string changes at most one stored observation.
C35_TransitionsOneWay ==
    /\ last.op = "addObservations"
          => \E rands \in RandSeqs :
                /\ AddedWith(rands)
                /\ \A k \in 1..Len(LastSteps(rands)) :
                      LET before == LastSteps(rands)[k].before.graph.observations
                          after == LastSteps(rands)[k].after.graph.observations
                          kept == SubSeq(after, 1, Len(before))
                      IN /\ Len(after) >= Len(before)
                         /\ Cardinality(Changed(before, kept)) <= 1
                         /\ \A i \in Changed(before, kept) :
                               /\ before[i].status = "Active"
                               /\ kept[i].id = before[i].id
    /\ last.op = "updateEntities"
          => /\ Len(Stored.observations) = Len(Pre.observations)
             /\ \A i \in 1..Len(Pre.observations) :
                   /\ Stored.observations[i].id = Pre.observations[i].id
                   /\ Stored.observations[i].status = Pre.observations[i].status
                   /\ Stored.observations[i].content = Pre.observations[i].content
    /\ last.op \in {"deleteObservations", "deleteEntities", "performStartupCleanup"}
          => Range(Stored.observations) \subseteq Range(Pre.observations)
    /\ last.op \in {"createEntities", "readGraph", "searchNodes", "openNodes",
                    "getContextInfo"}
          => Stored.observations = Pre.observations

\* a call adds the Resolved form of a text while the entity holds a Resolved
\* observation and an Active one of that text: the Active one changes, the
\* Resolved one stays
C35_Witness ==
    /\ last.op = "addObservations"
    /\ Len(Pre.observations) = 2
    /\ Len(Stored.observations) = 2
    /\ \E i, j \in 1..2 :
          /\ Pre.observations[i].status \in Final
          /\ Stored.observations[i] = Pre.observations[i]
          /\ Pre.observations[j].status = "Active"
          /\ Stored.observations[j].status \in Final
          /\ Stored.observations[j].id = Pre.observations[j].id

\* C36: every stored observation's entityName is the name of a stored entity.
C36_ObservationsHaveEntities ==
    \A o \in Range(Stored.observations) : o.entityName \in EntityNamesOf(Stored)

\* the same through every call but an updateEntities that sets an empty
\* entityType
C36_ExceptEmptyType ==
    (/\ Pre.observations # <<>> => \A o \in Range(Pre.observations) :
                                      o.entityName \in EntityNamesOf(Pre)
     /\ ~(last.op = "updateEntities"
            /\ \E u \in Range(last.args) : u.entityType = ""))
        => C36_ObservationsHaveEntities

----------------------------------------------------------------------------
(* updateEntities and the validity filter of saveGraph *)

\* C37: updateEntities never removes an entity: as many entities are stored
\* after the call as before, and every updated entity is stored.
C37_UpdateKeepsEntities ==
    last.op = "updateEntities"
        => /\ Len(Stored.entities) = Len(Pre.entities)
           /\ \A e \in Range(last.ret.updatedEntities) :
                 e \in Range(readGraph(Stored).entities)

----------------------------------------------------------------------------
(* read operations and the file *)

\* C38: readGraph, searchNodes, openNodes and getContextInfo never write the
\* file: after each of them the file is the file it loaded, line for line,
\* so the stored graph keeps its records and their order.
C38_ReadsLeaveFile ==
    last.op \in ReadOps
        => /\ ~last.saved
           /\ file = last.pre
           /\ Stored = Pre

\* a search answered from a stored graph with an entity, a relation and an
\* observation
C38_Witness ==
    /\ last.op = "searchNodes"
    /\ Stored.entities # <<>>
    /\ Stored.relations # <<>>
    /\ Stored.observations # <<>>
    /\ last.ret.entities # <<>>

----------------------------------------------------------------------------
(* what addObservations leaves alone *)

\* C39: addObservations changes only observations of the entities it names.
\* The call leaves the entities and the relations as they were; each content
\* string it processes keeps every observation in its place with its id and
\* its entityName, changes or adds observations of the entity of its own
\* group only, and removes none.
C39_AddObservationsFrame ==
    last.op = "addObservations"
        => /\ Stored.entities = Pre.entities
           /\ Stored.relations = Pre.relations
           /\ Len(Stored.observations) >= Len(Pre.observations)
           /\ \A i \in 1..Len(Pre.observations) :
                 /\ Stored.observations[i].id = Pre.observations[i].id
                 /\ Stored.observations[i].entityName = Pre.observations[i].entityName
           /\ \E rands \in RandSeqs :
                 /\ AddedWith(rands)
                 /\ \A k \in 1..Len(LastSteps(rands)) :
                       LET step == LastSteps(rands)[k]
                           before == step.before.graph.observations
                           after == step.after.graph.observations
                           kept == SubSeq(after, 1, Len(before))
                       IN /\ step.after.graph.entities = step.before.graph.entities
                          /\ step.after.graph.relations = step.before.graph.relations
                          /\ Len(after) >= Len(before)
                          /\ \A i \in Changed(before, kept) :
                                /\ before[i].entityName = step.entityName
                                /\ kept[i].entityName = step.entityName
                                /\ kept[i].id = before[i].id
                          /\ \A i \in (Len(before) + 1)..Len(after) :
                                after[i].entityName = step.entityName

\* B receives the Resolved form of a text of which A holds an Active
\* observation: A's observation stays as it was and B gets a new one
C39_Witness ==
    /\ last.op = "addObservations"
    /\ \E g \in Range(last.args) :
          g.entityName = "B" /\ Includes(g.contents, CResolved)
    /\ Len(Stored.observations) = Len(Pre.observations) + 1
    /\ Stored.relations # <<>>
    /\ \E i \in 1..Len(Pre.observations) :
          /\ Pre.observations[i].entityName = "A"
          /\ Pre.observations[i].status = "Active"
          /\ Stored.observations[i] = Pre.observations[i]
    /\ Stored.observations[Len(Stored.observations)].entityName = "B"
====
